---------------------------- MODULE Spec2Model ----------------------------
(***************************************************************************)
(* A model of the Tungsten unified build system (build.py): platform       *)
(* probe, BuildConfig, environment validation, GN argument composition,    *)
(* gn gen / autoninja execution with streamed output, and per-platform     *)
(* packaging with version resolution; and of two scripts beside it:        *)
(* bundle_libraries.py (download and hash verification of the bundled      *)
(* libraries) and run_performance_tests.py (generate_summary).             *)
(*                                                                         *)
(* Text is a sequence of atoms (strings that contain neither "=" nor       *)
(* white space, plus the atoms "=", ".", " " and "\n" themselves), so that *)
(* str.split("=", 1), str.strip() and str.splitlines() are computed on the *)
(* text and not assumed.  A one-atom text such as "is_debug" is written    *)
(* T("is_debug").                                                          *)
(***************************************************************************)
EXTENDS Integers, Sequences, FiniteSets, TLC

VARIABLES
    pc,           \* position of the running script
    args,         \* argparse.Namespace
    host,         \* what platform.system(), platform.machine() and the
                  \* device-tree model file report, observed by the probe
    config,       \* the BuildConfig object
    which,        \* shutil.which answers of the host, fixed when first asked
    fs,           \* paths of the host: present, absent, or not looked at yet
    environ,      \* os.environ entries the script reads or writes
    search_path,  \* os.environ["PATH"] as a list of directories
    build_dir,    \* build_dir of build(): <<type, platform, arch>> under out_dir
    build_args,   \* mapping returned by prepare_build_args (gn_args in build)
    args_gn,      \* the file build_dir/args.gn
    gn_exit,      \* returncode of "gn gen"
    child,        \* the autoninja process
    produced,     \* lines the child has written, stdout and stderr, in order
    pipe,         \* lines written and not yet read by the orchestrator
    relayed,      \* lines the orchestrator has printed
    ninja_exit,   \* process.returncode after process.wait()
    ninja_ok,     \* value run_ninja_build returned
    git,          \* outcome of "git describe", observed when it is run
    manifest,     \* state of src_dir/chrome/VERSION, observed when it is read
    version,      \* string returned by _get_version
    formats,      \* what happened to each packaging format
    stages,       \* status of each pipeline stage
    calls,        \* external processes started so far, in order
    diagnostics,  \* diagnostics printed so far
    raised,       \* exception propagating out of build(), or NoExc
    retval,       \* value build() returns
    exit_code,    \* exit code of the process, NoCode while it runs
    uncaught,     \* exception that escaped main, or NoExc
    update_hashes,\* --update-hashes of bundle_libraries.py
    hash_file,    \* library_hashes.json: the stored hash of each library
    lib_name,     \* library that bundle_libraries.main is processing
    lib_hash,     \* lib_info['hash'] of each library
    output_file,  \* content of the file at each library's output_path
    verified,     \* value verify_library returned
    new_hashes,   \* new_hashes of bundle_libraries.main
    success,      \* success of bundle_libraries.main
    test_results, \* results handed to generate_summary, per category
    summary       \* value generate_summary returned

cfgVars == <<args, config>>
hostVars == <<host, which, fs, environ, search_path>>
genVars == <<build_dir, build_args, args_gn, gn_exit>>
ninjaVars == <<child, produced, pipe, relayed, ninja_exit>>
pkgVars == <<git, manifest, version, formats>>
endVars == <<retval, exit_code, uncaught>>

bundleVars == <<update_hashes, hash_file, lib_name, lib_hash, output_file,
                verified, new_hashes, success>>

toolVars == <<bundleVars, test_results, summary>>

buildVars == <<cfgVars, hostVars, genVars, ninjaVars, ninja_ok, pkgVars, stages,
               calls, diagnostics, raised, endVars>>

vars == <<pc, buildVars, toolVars>>

-----------------------------------------------------------------------------
(* Bounds of the model *)

MaxOverrides == 2
MaxManifestLines == 4
MaxLines == 3
MaxServerStarts == 1
MaxLibraries == 2
MaxResults == 2

-----------------------------------------------------------------------------
(* Values *)

NoExc == "none"
None == "None"
Unset == "<unset>"
Unread == "<unread>"
NoCode == -1

T(s) == <<s>>

Platforms == {"linux", "windows", "macos", "android", "raspi"}
ArchChoices == {"x64", "arm64", "arm32"}
AndroidArchChoices == {"arm32", "arm64", "x86", "x64"}

Commands == {"gclient", "ccache", "sccache", "python3", "ninja", "pkg-config",
             "dpkg-deb", "rpmbuild"}

EnvNames == {"CR_DIR", "CI", "ANDROID_HOME",
             "CCACHE_DIR", "CCACHE_COMPRESS", "CCACHE_COMPRESSLEVEL",
             "CCACHE_MAXSIZE", "SCCACHE_DIR", "SCCACHE_CACHE_SIZE",
             "DEPOT_TOOLS_WIN_TOOLCHAIN"}

(* Source-tree candidates of BuildConfig.__init__, in priority order *)
CrDir == "$CR_DIR"
CiSrc == "script/chromium/src"
HomeSrc == "~/chromium/src"
LocalSrc == "script/src"

(* common_paths of _find_depot_tools, in order: a directory counts when it   *)
(* exists and holds gclient                                                  *)
DepotFallbacks == <<"~/depot_tools", "/opt/depot_tools", "script/../depot_tools">>

(* vs_paths of _find_visual_studio, in order *)
VsPaths == <<"VS2022/Enterprise", "VS2022/Professional", "VS2022/Community">>

Paths == {CrDir, CiSrc, HomeSrc, LocalSrc,
          "~/depot_tools", "/opt/depot_tools", "script/../depot_tools",
          "VS2022/Enterprise", "VS2022/Professional", "VS2022/Community",
          "build_dir", "build_dir/obj",
          "build_dir/Tungsten.app", "build_dir/Chromium.app",
          "artifacts/tar.xz", "artifacts/deb", "artifacts/zip", "artifacts/dmg"}

Formats == {"tar.xz", "deb", "rpm", "zip", "dmg"}

Stages == {"probe", "validate", "compose", "generate", "build", "package"}

UnknownHost == [system |-> "?", machine |-> "?",
                model |-> [readable |-> FALSE, text |-> <<>>]]
UnknownGit == [kind |-> "unknown", out |-> <<>>]
UnknownManifest == [state |-> "unknown", text |-> <<>>]

(* A value of the host that the script has not looked at yet is Unknown;     *)
(* looking at it fixes it.                                                   *)
Observe(x, unknown, S) == IF x = unknown THEN S ELSE {x}

(* The scripts beside build.py have not run *)
BundleIdle ==
    /\ update_hashes = FALSE
    /\ hash_file = <<>>
    /\ lib_name = None
    /\ lib_hash = <<>>
    /\ output_file = <<>>
    /\ verified = None
    /\ new_hashes = <<>>
    /\ success = TRUE

ToolsIdle ==
    /\ BundleIdle
    /\ test_results = <<>>
    /\ summary = None

RECURSIVE SeqsUpTo(_, _)
SeqsUpTo(S, n) ==
    IF n = 0 THEN {<<>>}
    ELSE LET shorter == SeqsUpTo(S, n - 1)
         IN  shorter \cup {Append(q, x) : q \in shorter, x \in S}

-----------------------------------------------------------------------------
(* Python dict with insertion order: a sequence of <<key, value>> entries    *)
(* with unique keys.  d[k] = v keeps the position of an existing key.        *)

Entry(k, v) == [k |-> k, v |-> v]

HasKey(d, k) == \E i \in 1..Len(d) : d[i].k = k

Lookup(d, k) == d[CHOOSE i \in 1..Len(d) : d[i].k = k].v

DictSet(d, k, v) ==
    IF HasKey(d, k)
    THEN [i \in 1..Len(d) |-> IF d[i].k = k THEN Entry(k, v) ELSE d[i]]
    ELSE Append(d, Entry(k, v))

RECURSIVE DictUpdate(_, _)
DictUpdate(d, other) ==
    IF other = <<>> THEN d
    ELSE DictUpdate(DictSet(d, Head(other).k, Head(other).v), Tail(other))

-----------------------------------------------------------------------------
(* str.split("=", 1) on one override item *)

HasEq(text) == \E i \in 1..Len(text) : text[i] = "="

FirstEq(text) == CHOOSE i \in 1..Len(text) :
                    /\ text[i] = "="
                    /\ \A j \in 1..(i - 1) : text[j] # "="

SplitKey(text) == SubSeq(text, 1, FirstEq(text) - 1)

SplitValue_UpToNextEq(text) ==
    LET rest == SubSeq(text, FirstEq(text) + 1, Len(text))
    IN  IF HasEq(rest) THEN SubSeq(rest, 1, FirstEq(rest) - 1) ELSE rest

SplitValue(text) == SubSeq(text, FirstEq(text) + 1, Len(text))


-----------------------------------------------------------------------------
(* shutil.which: the host's answer for a command is fixed the first time it  *)
(* is asked and the same ever after.                                         *)

Found(w, cmd) == w[cmd] = "found"

(* Index of the first command of cmds that is missing, 0 when none is *)
FirstMissing(w, cmds) ==
    IF \E i \in 1..Len(cmds) : w[cmds[i]] = "missing"
    THEN CHOOSE i \in 1..Len(cmds) :
            /\ w[cmds[i]] = "missing"
            /\ \A j \in 1..(i - 1) : w[cmds[j]] # "missing"
    ELSE 0

Asked(w, cmds) ==
    LET fresh == {c \in cmds : w[c] = "unasked"}
    IN  {[c \in Commands |->
            IF c \in fresh THEN (IF c \in S THEN "found" ELSE "missing")
            ELSE w[c]] : S \in SUBSET fresh}

Seen(f, paths) ==
    LET fresh == {q \in paths : f[q] = "unknown"}
    IN  {[q \in Paths |->
            IF q \in fresh THEN (IF q \in S THEN "present" ELSE "absent")
            ELSE f[q]] : S \in SUBSET fresh}

Exists(f, path) == f[path] = "present"

Range(q) == {q[i] : i \in 1..Len(q)}

Prefix(q, n) == {q[i] : i \in 1..n}

(* Index of the first directory of dirs that is present, 0 when none is *)
FirstPresent(f, dirs) ==
    IF \E i \in 1..Len(dirs) : Exists(f, dirs[i])
    THEN CHOOSE i \in 1..Len(dirs) :
            /\ Exists(f, dirs[i])
            /\ \A j \in 1..(i - 1) : ~Exists(f, dirs[j])
    ELSE 0

(* A loop that looks at dirs in order and stops at the first present one:   *)
(* the directories after it are not looked at.                              *)
LookInOrder(f, dirs) ==
    {g \in UNION {Seen(f, Prefix(dirs, n)) : n \in 0..Len(dirs)} :
        LET k == FirstPresent(g, dirs)
        IN  \A i \in 1..Len(dirs) :
                IF k = 0 \/ i <= k THEN g[dirs[i]] # "unknown"
                ELSE g[dirs[i]] = f[dirs[i]]}

-----------------------------------------------------------------------------
(* main, lines 754-758: parse_args and the release default *)

(* The mutually exclusive group rejects --release together with --debug     *)
ParseRejects(cmdline) == cmdline.release /\ cmdline.debug

DefaultRelease_Never(a) == a

DefaultRelease(a) ==
    IF ~a.release /\ ~a.debug THEN [a EXCEPT !.release = TRUE] ELSE a

RunCommandLines ==
    [ platform : {"auto"} \cup Platforms, arch : {"auto", "arm64"},
      release : BOOLEAN, debug : BOOLEAN, package : BOOLEAN,
      use_cache : BOOLEAN, pgo : {FALSE}, lto : {FALSE},
      android_arch : {None}, clean : {FALSE},
      gn_args : {<<>>, << <<"no_value">> >>} ]

ParseArgs ==
    /\ pc = "parse"
    /\ \E cmdline \in RunCommandLines :
        IF ParseRejects(cmdline)
        THEN /\ exit_code' = 2
             /\ pc' = "exited"
             /\ diagnostics' = diagnostics \cup {"usage error"}
             /\ UNCHANGED args
        ELSE /\ args' = DefaultRelease(cmdline)
             /\ pc' = "config"
             /\ UNCHANGED <<exit_code, diagnostics>>
    /\ UNCHANGED <<toolVars, config, hostVars, genVars, ninjaVars, ninja_ok, pkgVars, stages,
                   calls, raised, retval, uncaught>>

-----------------------------------------------------------------------------
(* BuildConfig.__init__, _detect_platform, _detect_arch *)

Lower(word) ==
    CASE word = "Linux" -> "linux"
      [] word = "Darwin" -> "darwin"
      [] word = "Windows" -> "windows"
      [] word = "FreeBSD" -> "freebsd"
      [] word = "AMD64" -> "amd64"
      [] word = "ARM64" -> "arm64"
      [] word = "Raspberry" -> "raspberry"
      [] word = "RASPBERRY" -> "raspberry"
      [] word = "Pi" -> "pi"
      [] word = "PI" -> "pi"
      [] OTHER -> word

(* "raspberry pi" in f.read().lower(); an unreadable file is not a Pi *)
SaysRaspberryPi(model) ==
    /\ model.readable
    /\ \E i \in 1..(Len(model.text) - 1) :
        /\ Lower(model.text[i]) = "raspberry"
        /\ Lower(model.text[i + 1]) = "pi"

Unsupported == "<ValueError>"

DetectPlatform(system, model) ==
    LET sys == Lower(system)
    IN  CASE sys = "darwin" -> "macos"
          [] sys = "windows" -> "windows"
          [] sys = "linux" -> IF SaysRaspberryPi(model) THEN "raspi" ELSE "linux"
          [] OTHER -> Unsupported

DetectArch(machine) ==
    LET m == Lower(machine)
    IN  CASE m \in {"x86_64", "amd64"} -> "x64"
          [] m \in {"aarch64", "arm64"} -> "arm64"
          [] m \in {"armv7l", "armv7"} -> "arm32"
          [] OTHER -> m

(* The source tree chosen for a layout: CR_DIR when set; else the CI        *)
(* checkout when CI is set and it exists; else the home checkout when it    *)
(* exists; else the local default.                                          *)
ResolveSrcDir(layout) ==
    IF layout.cr_dir # "" THEN CrDir
    ELSE IF layout.ci # "" /\ layout.ci_src THEN CiSrc
    ELSE IF layout.home_src THEN HomeSrc
    ELSE LocalSrc

(* What the resolution has read of the layout: each elif is evaluated only  *)
(* when the ones before it were false.                                      *)
ReadsCi(layout) == layout.cr_dir = ""
ReadsCiSrc(layout) == ReadsCi(layout) /\ layout.ci # ""
ReadsHomeSrc(layout) == ReadsCi(layout) /\ ~(layout.ci # "" /\ layout.ci_src)

PresentIf(b) == IF b THEN "present" ELSE "absent"

(* The layout of a host whose environment and directories are known *)
LayoutOf(env, f) ==
    [cr_dir |-> env["CR_DIR"], ci |-> env["CI"],
     ci_src |-> f[CiSrc] = "present", home_src |-> f[HomeSrc] = "present"]

RunHosts ==
    { [system |-> "Linux", machine |-> "x86_64",
       model |-> [readable |-> FALSE, text |-> <<>>]],
      [system |-> "Linux", machine |-> "aarch64",
       model |-> [readable |-> TRUE, text |-> <<"Raspberry", "Pi", "4">>]],
      [system |-> "Darwin", machine |-> "arm64",
       model |-> [readable |-> FALSE, text |-> <<>>]],
      [system |-> "Windows", machine |-> "AMD64",
       model |-> [readable |-> FALSE, text |-> <<>>]],
      [system |-> "FreeBSD", machine |-> "riscv64",
       model |-> [readable |-> FALSE, text |-> <<>>]] }

(* A host the probe has looked at, for the runs that start after it *)
ProbedHost == [system |-> "Linux", machine |-> "x86_64",
               model |-> [readable |-> FALSE, text |-> <<>>]]

RunLayouts ==
    { [cr_dir |-> "/cr", ci |-> "", ci_src |-> FALSE, home_src |-> FALSE],
      [cr_dir |-> "", ci |-> "1", ci_src |-> TRUE, home_src |-> FALSE],
      [cr_dir |-> "", ci |-> "", ci_src |-> FALSE, home_src |-> FALSE] }

(* main, line 761: config = BuildConfig(), outside main's try block *)
BuildConfigInit ==
    /\ pc = "config"
    /\ \E h \in Observe(host, UnknownHost, RunHosts),
          layout \in IF environ["CR_DIR"] = Unread THEN RunLayouts
                     ELSE {LayoutOf(environ, fs)} :
        LET platform == DetectPlatform(h.system, h.model)
            src_dir  == ResolveSrcDir(layout)
        IN  /\ host' = h
            /\ IF platform = Unsupported
               THEN /\ uncaught' = "ValueError"
                    /\ exit_code' = 1
                    /\ pc' = "exited"
                    /\ stages' = [stages EXCEPT !["probe"] = "failed"]
                    /\ UNCHANGED <<config, fs, environ>>
               ELSE /\ config' = [platform |-> platform,
                                  arch |-> DetectArch(h.machine),
                                  src_dir |-> src_dir,
                                  out_dir |-> <<src_dir, "out">>,
                                  depot_tools_path |-> None]
                    /\ environ' = [environ EXCEPT
                           !["CR_DIR"] = layout.cr_dir,
                           !["CI"] = IF ReadsCi(layout) THEN layout.ci ELSE @]
                    /\ fs' = [fs EXCEPT
                           ![CiSrc] = IF ReadsCiSrc(layout)
                                      THEN PresentIf(layout.ci_src) ELSE @,
                           ![HomeSrc] = IF ReadsHomeSrc(layout)
                                        THEN PresentIf(layout.home_src) ELSE @]
                    /\ stages' = [stages EXCEPT !["probe"] = "ok"]
                    /\ pc' = "override"
                    /\ UNCHANGED <<uncaught, exit_code>>
    /\ UNCHANGED <<toolVars, args, which, search_path, genVars, ninjaVars, ninja_ok, pkgVars,
                   calls, diagnostics, raised, retval>>

(* main, lines 764-767: explicit --platform and --arch replace the probe *)
OverrideConfig(cfg, a) ==
    [cfg EXCEPT !.platform = IF a.platform # "auto" THEN a.platform ELSE @,
                !.arch = IF a.arch # "auto" THEN a.arch ELSE @]

ApplyConfigOverrides ==
    /\ pc = "override"
    /\ config' = OverrideConfig(config, args)
    /\ pc' = "setup"
    /\ UNCHANGED <<toolVars, args, hostVars, genVars, ninjaVars, ninja_ok, pkgVars, stages, calls,
                   diagnostics, raised, endVars>>

-----------------------------------------------------------------------------
(* TungstenBuilder.setup_environment and the checks it calls *)

(* build(), lines 344-345: if not self.setup_environment(): return False *)
BuildAfterSetup_Ignored(ok) == "prepare"

BuildAfterSetup_OnToDiscovery(ok) == IF ok THEN "prepare" ELSE "depot_tools"

BuildAfterSetup(ok) == IF ok THEN "prepare" ELSE "return"

(* lines 87-92 *)
CheckSourceDir ==
    /\ pc = "setup"
    /\ \E f \in Seen(fs, {config.src_dir}) :
        /\ fs' = f
        /\ IF Exists(f, config.src_dir)
           THEN /\ pc' = "depot_tools"
                /\ UNCHANGED <<diagnostics, stages, retval>>
           ELSE /\ diagnostics' = diagnostics \cup {"ERROR: Chromium source not found"}
                /\ stages' = [stages EXCEPT !["validate"] = "failed"]
                /\ retval' = FALSE
                /\ pc' = BuildAfterSetup(FALSE)
    /\ UNCHANGED <<toolVars, host, cfgVars, which, environ, search_path, genVars, ninjaVars, ninja_ok,
                   pkgVars, calls, raised, exit_code, uncaught>>

FirstFallback(f) == FirstPresent(f, DepotFallbacks)

RecordDepotTools_AsSrcDir(cfg, dir) ==
    [cfg EXCEPT !.depot_tools_path = dir, !.src_dir = dir]

(* lines 117 and 129: self.config.depot_tools_path = ... *)
RecordDepotTools(cfg, dir) == [cfg EXCEPT !.depot_tools_path = dir]

PrependPath_Twice(path, dir) == <<dir, dir>> \o path

(* line 131: os.environ["PATH"] = str(path) + os.pathsep + os.environ["PATH"] *)
PrependPath(path, dir) == <<dir>> \o path

(* _find_depot_tools, lines 113-134, and lines 95-97 of setup_environment *)
FindDepotTools ==
    /\ pc = "depot_tools"
    /\ \E w \in Asked(which, {"gclient"}) :
        /\ which' = w
        /\ IF Found(w, "gclient")
           THEN /\ config' = RecordDepotTools(config, "dir of gclient")
                /\ pc' = "platform_env"
                /\ UNCHANGED <<fs, search_path, diagnostics, stages, retval>>
           ELSE \E f \in LookInOrder(fs, DepotFallbacks) :
                /\ fs' = f
                /\ IF FirstFallback(f) # 0
                   THEN /\ config' = RecordDepotTools(config,
                                        DepotFallbacks[FirstFallback(f)])
                        /\ search_path' = PrependPath(search_path,
                                                       DepotFallbacks[FirstFallback(f)])
                        /\ pc' = "platform_env"
                        /\ UNCHANGED <<diagnostics, stages, retval>>
                   ELSE /\ diagnostics' = diagnostics \cup {"ERROR: depot_tools not found"}
                        /\ stages' = [stages EXCEPT !["validate"] = "failed"]
                        /\ retval' = FALSE
                        /\ pc' = BuildAfterSetup(FALSE)
                        /\ UNCHANGED <<config, search_path>>
    /\ UNCHANGED <<toolVars, host, args, environ, genVars, ninjaVars, ninja_ok, pkgVars, calls, raised,
                   exit_code, uncaught>>

SetupPassed ==
    /\ stages' = [stages EXCEPT !["validate"] = "ok"]
    /\ pc' = BuildAfterSetup(TRUE)
    /\ UNCHANGED <<diagnostics, retval>>

SetupFailed(message) ==
    /\ diagnostics' = diagnostics \cup {message}
    /\ stages' = [stages EXCEPT !["validate"] = "failed"]
    /\ retval' = FALSE
    /\ pc' = BuildAfterSetup(FALSE)

FirstVs(f) == FirstPresent(f, VsPaths)

(* _setup_windows_env and _find_visual_studio *)
SetupWindowsEnv ==
    /\ pc = "platform_env"
    /\ config.platform = "windows"
    /\ \E f \in LookInOrder(fs, VsPaths) :
        /\ fs' = f
        /\ IF FirstVs(f) # 0
           THEN /\ environ' = [environ EXCEPT !["DEPOT_TOOLS_WIN_TOOLCHAIN"] = "0"]
                /\ SetupPassed
           ELSE /\ SetupFailed("ERROR: Visual Studio 2022 not found")
                /\ UNCHANGED environ
    /\ UNCHANGED <<toolVars, host, cfgVars, which, search_path, genVars, ninjaVars, ninja_ok, pkgVars,
                   calls, raised, exit_code, uncaught>>

(* _setup_macos_env: xcode-select -p, returncode checked by hand *)
SetupMacosEnv ==
    /\ pc = "platform_env"
    /\ config.platform = "macos"
    /\ calls' = Append(calls, "xcode-select")
    /\ \E returncode \in {0, 2} :
        IF returncode = 0 THEN SetupPassed
        ELSE SetupFailed("ERROR: Xcode not found")
    /\ UNCHANGED <<toolVars, cfgVars, hostVars, genVars, ninjaVars, ninja_ok, pkgVars, raised,
                   exit_code, uncaught>>

RequiredCommands == <<"python3", "ninja", "pkg-config">>

(* The loop over required_commands returns at the first missing command:  *)
(* the commands after it are not asked for.                                 *)
AskInOrder(w, cmds) ==
    {v \in UNION {Asked(w, Prefix(cmds, n)) : n \in 0..Len(cmds)} :
        LET k == FirstMissing(v, cmds)
        IN  \A i \in 1..Len(cmds) :
                IF k = 0 \/ i <= k THEN v[cmds[i]] # "unasked"
                ELSE v[cmds[i]] = w[cmds[i]]}

(* _setup_linux_env, and _setup_raspi_env which calls it *)
SetupLinuxEnv ==
    /\ pc = "platform_env"
    /\ config.platform \in {"linux", "raspi"}
    /\ \E w \in AskInOrder(which, RequiredCommands) :
        /\ which' = w
        /\ IF FirstMissing(w, RequiredCommands) = 0 THEN SetupPassed
           ELSE SetupFailed("ERROR: required command not found")
    /\ UNCHANGED <<toolVars, host, cfgVars, fs, environ, search_path, genVars, ninjaVars, ninja_ok,
                   pkgVars, calls, raised, exit_code, uncaught>>

(* _setup_android_env *)
SetupAndroidEnv ==
    /\ pc = "platform_env"
    /\ config.platform = "android"
    /\ \E home \in IF environ["ANDROID_HOME"] = Unread THEN {"", "/sdk"}
                   ELSE {environ["ANDROID_HOME"]} :
        /\ environ' = [environ EXCEPT !["ANDROID_HOME"] = home]
        /\ IF home # "" THEN SetupPassed
           ELSE SetupFailed("ERROR: ANDROID_HOME not set")
    /\ UNCHANGED <<toolVars, host, cfgVars, which, fs, search_path, genVars, ninjaVars, ninja_ok,
                   pkgVars, calls, raised, exit_code, uncaught>>

-----------------------------------------------------------------------------
(* TungstenBuilder._setup_build_cache *)

CacheCommandsAsked(platform) ==
    IF platform = "windows" THEN {"ccache", "sccache"} ELSE {"ccache"}

CcacheEnv(env) ==
    [env EXCEPT !["CCACHE_DIR"] = "~/.cache/tungsten-build/ccache",
                !["CCACHE_COMPRESS"] = "1",
                !["CCACHE_COMPRESSLEVEL"] = "6",
                !["CCACHE_MAXSIZE"] = "20G"]

SccacheEnv(env) ==
    [env EXCEPT !["SCCACHE_DIR"] = "~/.cache/tungsten-build/sccache",
                !["SCCACHE_CACHE_SIZE"] = "20G"]

UsesSccache(platform, w) == platform = "windows" /\ Found(w, "sccache")

SetupBuildCacheEnv(env, platform, w) ==
    LET e1 == IF Found(w, "ccache") THEN CcacheEnv(env) ELSE env
    IN  IF UsesSccache(platform, w) THEN SccacheEnv(e1) ELSE e1

SetupBuildCacheCalls(platform, w) ==
    IF UsesSccache(platform, w) THEN <<"sccache">> ELSE <<>>

-----------------------------------------------------------------------------
(* TungstenBuilder.prepare_build_args and _get_platform_args *)

Bool(b) == IF b THEN T("true") ELSE T("false")

BaseArgs_FeaturesForRelease(a) ==
    << Entry(T("is_official_build"), Bool(a.release)),
       Entry(T("is_debug"), Bool(a.debug)),
       Entry(T("symbol_level"), IF a.debug THEN T("2") ELSE T("0")),
       Entry(T("enable_nacl"), T("false")),
       Entry(T("proprietary_codecs"), T("true")),
       Entry(T("ffmpeg_branding"), T("Chrome")),
       Entry(T("enable_nostr"), T("true")),
       Entry(T("enable_local_relay"), Bool(a.release)),
       Entry(T("enable_blossom_server"), T("true")),
       Entry(T("enable_nsite"), T("true")) >>

(* lines 217-230 *)
BaseArgs(a) ==
    << Entry(T("is_official_build"), Bool(a.release)),
       Entry(T("is_debug"), Bool(a.debug)),
       Entry(T("symbol_level"), IF a.debug THEN T("2") ELSE T("0")),
       Entry(T("enable_nacl"), T("false")),
       Entry(T("proprietary_codecs"), T("true")),
       Entry(T("ffmpeg_branding"), T("Chrome")),
       Entry(T("enable_nostr"), T("true")),
       Entry(T("enable_local_relay"), T("true")),
       Entry(T("enable_blossom_server"), T("true")),
       Entry(T("enable_nsite"), T("true")) >>

ProtocolFeatures ==
    {"enable_nostr", "enable_local_relay", "enable_blossom_server", "enable_nsite"}

CacheArgs_WhenEnvironSet(d, a) ==
    IF a.use_cache /\ environ["CCACHE_DIR"] # Unset
    THEN DictSet(d, T("cc_wrapper"), T("ccache")) ELSE d

CacheArgs(d, a) ==
    IF a.use_cache THEN DictSet(d, T("cc_wrapper"), T("ccache")) ELSE d

TargetArgs(cfg, a) ==
    CASE cfg.platform = "windows" ->
            << Entry(T("target_os"), T("win")),
               Entry(T("target_cpu"), T(cfg.arch)) >>
      [] cfg.platform = "macos" ->
            << Entry(T("target_os"), T("mac")),
               Entry(T("target_cpu"), T(cfg.arch)),
               Entry(T("use_system_xcode"), T("true")) >>
      [] cfg.platform = "linux" ->
            << Entry(T("target_os"), T("linux")),
               Entry(T("target_cpu"), T(cfg.arch)),
               Entry(T("use_sysroot"), T("true")) >>
      [] cfg.platform = "raspi" ->
            << Entry(T("target_os"), T("linux")),
               Entry(T("target_cpu"), T("arm64")),
               Entry(T("arm_version"), T("8")),
               Entry(T("arm_arch"), T("armv8-a")),
               Entry(T("use_sysroot"), T("true")) >>
      [] cfg.platform = "android" ->
            << Entry(T("target_os"), T("android")),
               Entry(T("target_cpu"),
                     IF a.android_arch = None THEN T("arm64")
                     ELSE T(a.android_arch)),
               Entry(T("android_channel"), T("stable")) >>
      [] OTHER -> <<>>

OptimizationArgs(d, a) ==
    LET d1 == IF a.pgo THEN DictSet(d, T("chrome_pgo_phase"), T("2")) ELSE d
    IN  IF a.lto THEN DictSet(d1, T("use_thin_lto"), T("true")) ELSE d1

GetPlatformArgs(cfg, a) == OptimizationArgs(TargetArgs(cfg, a), a)

ApplyOverride_KeepExisting(d, item) ==
    IF HasKey(d, SplitKey(item)) THEN d
    ELSE Append(d, Entry(SplitKey(item), SplitValue(item)))

ApplyOverride(d, item) == DictSet(d, SplitKey(item), SplitValue(item))

RECURSIVE ApplyOverrides(_, _)
ApplyOverrides(d, items) ==
    IF items = <<>> THEN d
    ELSE ApplyOverrides(ApplyOverride(d, Head(items)), Tail(items))

(* key, value = arg.split("=", 1) raises ValueError on an item without "=" *)
OverridesRaise(items) == \E i \in 1..Len(items) : ~HasEq(items[i])

PrepareBuildArgs(cfg, a) ==
    LET layered == DictUpdate(CacheArgs(BaseArgs(a), a), GetPlatformArgs(cfg, a))
    IN  IF OverridesRaise(a.gn_args)
        THEN [exc |-> "ValueError", map |-> <<>>]
        ELSE [exc |-> NoExc, map |-> ApplyOverrides(layered, a.gn_args)]

BuildType(a) == IF a.release THEN "Release" ELSE "Debug"

(* build(), lines 348-353: the build directory's name, then               *)
(* gn_args = self.prepare_build_args(args)                                 *)
PrepareStep ==
    /\ pc = "prepare"
    /\ build_dir' = <<BuildType(args), config.platform, config.arch>>
    /\ LET asked == IF args.use_cache
                    THEN Asked(which, CacheCommandsAsked(config.platform))
                    ELSE {which}
       IN  \E w \in asked :
            /\ which' = w
            /\ environ' = IF args.use_cache
                          THEN SetupBuildCacheEnv(environ, config.platform, w)
                          ELSE environ
            /\ calls' = IF args.use_cache
                        THEN calls \o SetupBuildCacheCalls(config.platform, w)
                        ELSE calls
    /\ LET r == PrepareBuildArgs(config, args)
       IN  /\ build_args' = r.map
           /\ raised' = r.exc
           /\ stages' = [stages EXCEPT !["compose"] =
                            IF r.exc = NoExc THEN "ok" ELSE "failed"]
           /\ pc' = IF r.exc = NoExc THEN "gn_gen" ELSE "unwind"
    /\ UNCHANGED <<toolVars, host, cfgVars, fs, search_path, args_gn, gn_exit, ninjaVars, ninja_ok,
                   pkgVars, diagnostics, endVars>>

-----------------------------------------------------------------------------
(* str.strip(), str.splitlines() and str.join() *)

IsSpace(t) == t \in {" ", "\n", "\t"}

RECURSIVE LStrip(_)
LStrip(text) ==
    IF text # <<>> /\ IsSpace(Head(text)) THEN LStrip(Tail(text)) ELSE text

RECURSIVE RStrip(_)
RStrip(text) ==
    IF text # <<>> /\ IsSpace(text[Len(text)])
    THEN RStrip(SubSeq(text, 1, Len(text) - 1))
    ELSE text

Strip(text) == RStrip(LStrip(text))

RECURSIVE SplitLinesFrom(_, _, _)
SplitLinesFrom(text, cur, acc) ==
    IF text = <<>> THEN (IF cur = <<>> THEN acc ELSE Append(acc, cur))
    ELSE IF Head(text) = "\n" THEN SplitLinesFrom(Tail(text), <<>>, Append(acc, cur))
    ELSE SplitLinesFrom(Tail(text), Append(cur, Head(text)), acc)

SplitLines(text) == SplitLinesFrom(text, <<>>, <<>>)

RECURSIVE Join(_, _)
Join(sep, parts) ==
    IF parts = <<>> THEN <<>>
    ELSE IF Len(parts) = 1 THEN parts[1]
    ELSE parts[1] \o sep \o Join(sep, Tail(parts))

-----------------------------------------------------------------------------
(* TungstenBuilder.run_gn_gen *)

ArgLine(entry) == entry.k \o <<" ", "=", " ">> \o entry.v

(* line 299: one "k = v" line per entry, joined by newlines *)
ArgsContent(d) == Join(T("\n"), [i \in 1..Len(d) |-> ArgLine(d[i])])

(* line 306: Path.write_text truncates the file and writes the content *)
WriteText_Append(file, content) ==
    [state |-> "file",
     text |-> IF file.state = "file" THEN file.text \o content ELSE content]

WriteText(file, content) == [state |-> "file", text |-> content]

(* build(), lines 356-358 *)
BuildAfterGn_Ignored(ok) == "ninja"

BuildAfterGn_Retry(ok) == IF ok THEN "ninja" ELSE "gn_gen"

BuildAfterGn(ok) == IF ok THEN "ninja" ELSE "return"

GnOutcomes == {"0", "1", "FileNotFoundError"}

RunGnGen ==
    /\ pc = "gn_gen"
    /\ fs' = [fs EXCEPT !["build_dir"] = "present"]
    /\ args_gn' = WriteText(args_gn, ArgsContent(build_args))
    /\ calls' = Append(calls, "gn")
    /\ \E outcome \in GnOutcomes :
        CASE outcome = "0" ->
                /\ gn_exit' = 0
                /\ stages' = [stages EXCEPT !["generate"] = "ok"]
                /\ pc' = BuildAfterGn(TRUE)
                /\ UNCHANGED <<diagnostics, retval, raised>>
          [] outcome = "1" ->
                /\ gn_exit' = 1
                /\ stages' = [stages EXCEPT !["generate"] = "failed"]
                /\ diagnostics' = diagnostics \cup {"ERROR: GN generation failed"}
                /\ retval' = FALSE
                /\ pc' = BuildAfterGn(FALSE)
                /\ UNCHANGED raised
          [] OTHER ->
                /\ raised' = outcome
                /\ stages' = [stages EXCEPT !["generate"] = "failed"]
                /\ pc' = "unwind"
                /\ UNCHANGED <<gn_exit, diagnostics, retval>>
    /\ UNCHANGED <<toolVars, host, cfgVars, which, environ, search_path, build_dir, build_args,
                   ninjaVars, ninja_ok, pkgVars, exit_code, uncaught>>

-----------------------------------------------------------------------------
(* TungstenBuilder.run_ninja_build.  The child writes lines to stdout and   *)
(* to stderr; stderr=subprocess.STDOUT makes both one pipe.                 *)

NoChild == [state |-> "none", code |-> NoCode]

Line(fd, n) == [fd |-> fd, n |-> n]

(* lines 324-332: subprocess.Popen *)
StartNinja ==
    /\ pc = "ninja"
    /\ calls' = Append(calls, "autoninja")
    /\ \E started \in BOOLEAN :
        IF started
        THEN /\ child' = [state |-> "running", code |-> NoCode]
             /\ stages' = [stages EXCEPT !["build"] = "running"]
             /\ pc' = "stream"
             /\ UNCHANGED raised
        ELSE /\ raised' = "FileNotFoundError"
             /\ stages' = [stages EXCEPT !["build"] = "failed"]
             /\ pc' = "unwind"
             /\ UNCHANGED child
    /\ UNCHANGED <<toolVars, cfgVars, hostVars, genVars, produced, pipe, relayed,
                   ninja_exit, ninja_ok, pkgVars, diagnostics, endVars>>

ChildWrite(limit) ==
    /\ child.state = "running"
    /\ Len(produced) < limit
    /\ \E fd \in {"stdout", "stderr"} :
        /\ produced' = Append(produced, Line(fd, Len(produced) + 1))
        /\ pipe' = Append(pipe, Line(fd, Len(produced) + 1))
    /\ UNCHANGED <<toolVars, pc, cfgVars, hostVars, genVars, child, relayed, ninja_exit,
                   ninja_ok, pkgVars, stages, calls, diagnostics, raised, endVars>>

(* The child closes its output and keeps running *)
ChildClose ==
    /\ child.state = "running"
    /\ child' = [child EXCEPT !.state = "closed"]
    /\ UNCHANGED <<toolVars, pc, cfgVars, hostVars, genVars, produced, pipe, relayed,
                   ninja_exit, ninja_ok, pkgVars, stages, calls, diagnostics,
                   raised, endVars>>

ChildExit ==
    /\ child.state \in {"running", "closed"}
    /\ \E code \in {0, 1} : child' = [state |-> "exited", code |-> code]
    /\ UNCHANGED <<toolVars, pc, cfgVars, hostVars, genVars, produced, pipe, relayed,
                   ninja_exit, ninja_ok, pkgVars, stages, calls, diagnostics,
                   raised, endVars>>

(* lines 335-336: for line in process.stdout: print(line, end='') *)
Relay(printed, line) == Append(printed, line)

ReadLine ==
    /\ pc = "stream"
    /\ pipe # <<>>
    /\ relayed' = Relay(relayed, Head(pipe))
    /\ pipe' = Tail(pipe)
    /\ UNCHANGED <<toolVars, pc, cfgVars, hostVars, genVars, child, produced, ninja_exit,
                   ninja_ok, pkgVars, stages, calls, diagnostics, raised, endVars>>

(* The iteration ends at end of file: nothing left to read and the write    *)
(* end closed.                                                              *)
StreamEnded_WhenEmpty(unread, proc) == unread = <<>>

StreamEnded(unread, proc) ==
    unread = <<>> /\ proc.state \in {"closed", "exited"}

ReadEof ==
    /\ pc = "stream"
    /\ StreamEnded(pipe, child)
    /\ pc' = "wait"
    /\ UNCHANGED <<toolVars, cfgVars, hostVars, genVars, ninjaVars, ninja_ok, pkgVars,
                   stages, calls, diagnostics, raised, endVars>>

(* line 339: return process.returncode == 0 *)
NinjaSuccess(code) == code = 0

(* build(), lines 364-375 *)
BuildAfterNinja_AlwaysPackage(ok, package) == "package"

BuildAfterNinja(ok, package) ==
    IF ~ok THEN "return" ELSE IF package THEN "package" ELSE "return"

(* lines 338-339, process.wait() and the return, then build() lines 364-375 *)
WaitNinja ==
    /\ pc = "wait"
    /\ child.state = "exited"
    /\ ninja_exit' = child.code
    /\ ninja_ok' = NinjaSuccess(child.code)
    /\ stages' = [stages EXCEPT !["build"] =
                    IF NinjaSuccess(child.code) THEN "ok" ELSE "failed"]
    /\ diagnostics' = IF NinjaSuccess(child.code) THEN diagnostics
                      ELSE diagnostics \cup {"ERROR: Build failed"}
    /\ retval' = NinjaSuccess(child.code)
    /\ pc' = BuildAfterNinja(NinjaSuccess(child.code), args.package)
    /\ UNCHANGED <<toolVars, cfgVars, hostVars, genVars, child, produced, pipe, relayed,
                   pkgVars, calls, raised, exit_code, uncaught>>

-----------------------------------------------------------------------------
(* TungstenBuilder._get_version *)

(* lines 551-554: the key=value lines of the manifest, later lines winning *)
ManifestLineSet(d, line) ==
    IF HasEq(line)
    THEN DictSet(d, Strip(SplitKey(line)), Strip(SplitValue(line)))
    ELSE d

RECURSIVE ParseManifestLines(_, _)
ParseManifestLines(d, lines) ==
    IF lines = <<>> THEN d
    ELSE ParseManifestLines(ManifestLineSet(d, Head(lines)), Tail(lines))

DictGet(d, k, default) == IF HasKey(d, k) THEN Lookup(d, k) ELSE default

ManifestVersion(text) ==
    LET version_data == ParseManifestLines(<<>>, SplitLines(text))
    IN  Join(T("."), << DictGet(version_data, T("MAJOR"), T("0")),
                        DictGet(version_data, T("MINOR"), T("0")),
                        DictGet(version_data, T("BUILD"), T("0")),
                        DictGet(version_data, T("PATCH"), T("0")) >>)

DefaultVersion == <<"0", ".", "0", ".", "0", ".", "0">>

(* subprocess.run(..., check=True) returns only for exit code 0; the bare    *)
(* except swallows every failure of the query.                               *)
GitSucceeded(g) == g.kind = "ok"

(* version_file.exists() holds for a file that cannot be read; read_text()   *)
(* then raises (PermissionError, IsADirectoryError, UnicodeDecodeError).     *)
GetVersion(g, m) ==
    IF GitSucceeded(g) THEN [exc |-> NoExc, value |-> Strip(g.out)]
    ELSE IF m.state = "unreadable" THEN [exc |-> "OSError", value |-> <<>>]
    ELSE IF m.state = "file" THEN [exc |-> NoExc, value |-> ManifestVersion(m.text)]
    ELSE [exc |-> NoExc, value |-> DefaultVersion]

PackageAfterVersion(platform) ==
    CASE platform = "linux" -> "tar"
      [] platform = "windows" -> "zip"
      [] platform = "macos" -> "bundle"

(* The hosts a pipeline run is checked on *)
RunGits ==
    { [kind |-> "ok", out |-> <<"v1", ".", "2", "\n">>],
      [kind |-> "nonzero", out |-> <<>>] }

RunManifests ==
    { [state |-> "absent", text |-> <<>>],
      [state |-> "unreadable", text |-> <<>>],
      [state |-> "file", text |-> <<"MAJOR", "=", "120">>] }

(* version = self._get_version() in _package_linux/_windows/_macos *)
GetVersionStep ==
    /\ pc = "get_version"
    /\ \E g \in Observe(git, UnknownGit, RunGits) :
        \E m \in IF GitSucceeded(g) THEN {manifest}
                 ELSE Observe(manifest, UnknownManifest, RunManifests) :
            LET r == GetVersion(g, m)
            IN  /\ git' = g
                /\ manifest' = m
                /\ calls' = Append(calls, "git")
                /\ version' = r.value
                /\ raised' = r.exc
                /\ stages' = [stages EXCEPT !["package"] =
                                 IF r.exc = NoExc THEN @ ELSE "failed"]
                /\ pc' = IF r.exc = NoExc
                         THEN PackageAfterVersion(config.platform)
                         ELSE "unwind"
    /\ UNCHANGED <<toolVars, cfgVars, hostVars, genVars, ninjaVars, ninja_ok, formats,
                   diagnostics, endVars>>

-----------------------------------------------------------------------------
(* TungstenBuilder.package_build and the per-platform packagers *)

PackagerImplemented_Raspi(platform) ==
    platform \in {"linux", "windows", "macos", "raspi"}

(* _package_android and _package_raspi only print and return True *)
PackagerImplemented(platform) == platform \in {"linux", "windows", "macos"}

PackageBuild ==
    /\ pc = "package"
    /\ IF PackagerImplemented(config.platform)
       THEN /\ stages' = [stages EXCEPT !["package"] = "running"]
            /\ pc' = "get_version"
            /\ UNCHANGED <<retval, diagnostics>>
       ELSE /\ stages' = [stages EXCEPT !["package"] = "ok"]
            /\ diagnostics' = diagnostics \cup {"packaging not yet implemented"}
            /\ retval' = TRUE
            /\ pc' = "return"
    /\ UNCHANGED <<toolVars, cfgVars, hostVars, genVars, ninjaVars, ninja_ok, pkgVars,
                   calls, raised, exit_code, uncaught>>

PackagingRaised(format) ==
    /\ raised' = "CalledProcessError"
    /\ formats' = [formats EXCEPT ![format] = "failed"]
    /\ stages' = [stages EXCEPT !["package"] = "failed"]
    /\ pc' = "unwind"

(* _package_linux, lines 428-432: subprocess.run(tar, check=True) *)
TarStep ==
    /\ pc = "tar"
    /\ calls' = Append(calls, "tar")
    /\ \E returncode \in {0, 2} :
        IF returncode = 0
        THEN /\ formats' = [formats EXCEPT !["tar.xz"] = "produced"]
             /\ fs' = [fs EXCEPT !["artifacts/tar.xz"] = "present"]
             /\ pc' = "deb"
             /\ UNCHANGED <<raised, stages>>
        ELSE /\ PackagingRaised("tar.xz")
             /\ UNCHANGED fs
    /\ UNCHANGED <<toolVars, host, cfgVars, which, environ, search_path, genVars, ninjaVars,
                   ninja_ok, git, manifest, version, diagnostics, endVars>>

(* _package_linux, lines 435-436, and _create_deb_package:                  *)
(* subprocess.run(dpkg-deb, check=True)                                     *)
DebStep ==
    /\ pc = "deb"
    /\ \E w \in Asked(which, {"dpkg-deb"}) :
        /\ which' = w
        /\ IF Found(w, "dpkg-deb")
           THEN /\ calls' = Append(calls, "dpkg-deb")
                /\ \E returncode \in {0, 2} :
                    IF returncode = 0
                    THEN /\ formats' = [formats EXCEPT !["deb"] = "produced"]
                         /\ fs' = [fs EXCEPT !["artifacts/deb"] = "present"]
                         /\ pc' = "rpm"
                         /\ UNCHANGED <<raised, stages>>
                    ELSE /\ PackagingRaised("deb")
                         /\ UNCHANGED fs
           ELSE /\ pc' = "rpm"
                /\ UNCHANGED <<calls, formats, fs, raised, stages>>
    /\ UNCHANGED <<toolVars, host, cfgVars, environ, search_path, genVars, ninjaVars, ninja_ok,
                   git, manifest, version, diagnostics, endVars>>

(* _package_linux, lines 439-442, and _create_rpm_package, which only       *)
(* prints that it skips                                                     *)
RpmStep ==
    /\ pc = "rpm"
    /\ \E w \in Asked(which, {"rpmbuild"}) :
        /\ which' = w
        /\ formats' = IF Found(w, "rpmbuild")
                      THEN [formats EXCEPT !["rpm"] = "skipped"]
                      ELSE formats
    /\ stages' = [stages EXCEPT !["package"] = "ok"]
    /\ retval' = TRUE
    /\ pc' = "return"
    /\ UNCHANGED <<toolVars, host, cfgVars, fs, environ, search_path, genVars, ninjaVars,
                   ninja_ok, git, manifest, version, calls, diagnostics, raised,
                   exit_code, uncaught>>

(* _package_windows, lines 459-474 *)
ZipStep ==
    /\ pc = "zip"
    /\ formats' = [formats EXCEPT !["zip"] = "produced"]
    /\ fs' = [fs EXCEPT !["artifacts/zip"] = "present"]
    /\ stages' = [stages EXCEPT !["package"] = "ok"]
    /\ retval' = TRUE
    /\ pc' = "return"
    /\ UNCHANGED <<toolVars, host, cfgVars, which, environ, search_path, genVars, ninjaVars,
                   ninja_ok, git, manifest, version, calls, diagnostics, raised,
                   exit_code, uncaught>>

Tungsten == "build_dir/Tungsten.app"
Chromium == "build_dir/Chromium.app"

LocateBundle_CopyGeneric(f) ==
    IF Exists(f, Tungsten) THEN f
    ELSE IF Exists(f, Chromium) THEN [f EXCEPT ![Tungsten] = "present"]
    ELSE f

(* _package_macos, lines 488-496: Chromium.app is looked for only when      *)
(* Tungsten.app is absent, and is then moved to Tungsten.app                *)
LocateBundle(f) ==
    IF Exists(f, Tungsten) THEN f
    ELSE IF Exists(f, Chromium)
    THEN [f EXCEPT ![Chromium] = "absent", ![Tungsten] = "present"]
    ELSE f

(* _package_macos, lines 488-500 *)
BundleStep ==
    /\ pc = "bundle"
    /\ \E f \in LookInOrder(fs, <<Tungsten, Chromium>>) :
        /\ fs' = LocateBundle(f)
        /\ IF Exists(LocateBundle(f), Tungsten)
           THEN /\ pc' = "dmg"
                /\ UNCHANGED <<diagnostics, stages, retval>>
           ELSE /\ diagnostics' = diagnostics \cup {"ERROR: App bundle not found"}
                /\ stages' = [stages EXCEPT !["package"] = "failed"]
                /\ retval' = FALSE
                /\ pc' = "return"
    /\ UNCHANGED <<toolVars, host, cfgVars, which, environ, search_path, genVars, ninjaVars,
                   ninja_ok, pkgVars, calls, raised, exit_code, uncaught>>

(* _package_macos, lines 502-519: subprocess.run(hdiutil, check=True) *)
DmgStep ==
    /\ pc = "dmg"
    /\ calls' = Append(calls, "hdiutil")
    /\ \E returncode \in {0, 1} :
        IF returncode = 0
        THEN /\ formats' = [formats EXCEPT !["dmg"] = "produced"]
             /\ fs' = [fs EXCEPT !["artifacts/dmg"] = "present"]
             /\ stages' = [stages EXCEPT !["package"] = "ok"]
             /\ retval' = TRUE
             /\ pc' = "return"
             /\ UNCHANGED raised
        ELSE /\ PackagingRaised("dmg")
             /\ UNCHANGED <<fs, retval>>
    /\ UNCHANGED <<toolVars, host, cfgVars, which, environ, search_path, genVars, ninjaVars,
                   ninja_ok, git, manifest, version, diagnostics, exit_code,
                   uncaught>>

-----------------------------------------------------------------------------
(* main, lines 772-782 *)

MainExitCode_ZeroOnError(outcome) ==
    IF outcome = "True" THEN 0 ELSE IF outcome = "False" THEN 1 ELSE 0

MainExitCode(outcome) ==
    CASE outcome = "True" -> 0
      [] outcome = "False" -> 1
      [] outcome = "KeyboardInterrupt" -> 1
      [] OTHER -> 1

MainReturn ==
    /\ pc = "return"
    /\ exit_code' = MainExitCode(IF retval THEN "True" ELSE "False")
    /\ pc' = "exited"
    /\ UNCHANGED <<toolVars, cfgVars, hostVars, genVars, ninjaVars, ninja_ok, pkgVars,
                   stages, calls, diagnostics, raised, retval, uncaught>>

(* lines 777-782: except KeyboardInterrupt, then except Exception *)
MainExceptMessage(exc) ==
    IF exc = "KeyboardInterrupt" THEN "Build interrupted by user"
    ELSE "Build failed with error"

(* except KeyboardInterrupt / except Exception as e: print, return 1 *)
MainExcept ==
    /\ pc = "unwind"
    /\ diagnostics' = diagnostics \cup {MainExceptMessage(raised)}
    /\ exit_code' = MainExitCode(raised)
    /\ pc' = "exited"
    /\ UNCHANGED <<toolVars, cfgVars, hostVars, genVars, ninjaVars, ninja_ok, pkgVars,
                   stages, calls, raised, retval, uncaught>>

-----------------------------------------------------------------------------
(* A run of the script, from the command line to the exit code *)

RunLines == 1

NoAnswers == [c \in Commands |-> "unasked"]
NoPaths == [q \in Paths |-> "unknown"]
NoEnv == [n \in EnvNames |->
            IF n \in {"CR_DIR", "CI", "ANDROID_HOME"} THEN Unread ELSE Unset]
NoConfig == [platform |-> "?", arch |-> "?", src_dir |-> "?",
             out_dir |-> <<"?", "out">>, depot_tools_path |-> None]
ArgparseDefaults ==
    [platform |-> "auto", arch |-> "auto", release |-> FALSE, debug |-> FALSE,
     package |-> FALSE, use_cache |-> TRUE, pgo |-> FALSE, lto |-> FALSE,
     android_arch |-> None, clean |-> FALSE, gn_args |-> <<>>]

(* Nothing generated, built or packaged yet *)
NothingDone ==
    /\ build_dir = <<>>
    /\ build_args = <<>>
    /\ args_gn = [state |-> "unknown", text |-> <<>>]
    /\ gn_exit = NoCode
    /\ child = NoChild
    /\ produced = <<>>
    /\ pipe = <<>>
    /\ relayed = <<>>
    /\ ninja_exit = NoCode
    /\ ninja_ok = FALSE
    /\ version = <<>>
    /\ formats = [f \in Formats |-> "not_attempted"]
    /\ calls = <<>>
    /\ diagnostics = {}
    /\ raised = NoExc
    /\ retval = FALSE
    /\ exit_code = NoCode
    /\ uncaught = NoExc

Init ==
    /\ pc = "parse"
    /\ args = ArgparseDefaults
    /\ host = UnknownHost
    /\ config = NoConfig
    /\ which = NoAnswers
    /\ fs = NoPaths
    /\ environ = NoEnv
    /\ search_path = <<"$PATH">>
    /\ git = UnknownGit
    /\ manifest = UnknownManifest
    /\ stages = [st \in Stages |-> "not_run"]
    /\ NothingDone
    /\ ToolsIdle

Next ==
    \/ ParseArgs
    \/ BuildConfigInit
    \/ ApplyConfigOverrides
    \/ CheckSourceDir
    \/ FindDepotTools
    \/ SetupWindowsEnv
    \/ SetupMacosEnv
    \/ SetupLinuxEnv
    \/ SetupAndroidEnv
    \/ PrepareStep
    \/ RunGnGen
    \/ StartNinja
    \/ ChildWrite(RunLines)
    \/ ChildClose
    \/ ChildExit
    \/ ReadLine
    \/ ReadEof
    \/ WaitNinja
    \/ PackageBuild
    \/ GetVersionStep
    \/ TarStep
    \/ DebStep
    \/ RpmStep
    \/ ZipStep
    \/ BundleStep
    \/ DmgStep
    \/ MainReturn
    \/ MainExcept

Spec == Init /\ [][Next]_vars

-----------------------------------------------------------------------------
(* Argument composition on its own: every configuration and argument set    *)
(* main can hand to prepare_build_args.                                     *)

OverrideItems ==
    { <<"is_debug", "=", "maybe">>,
      <<"target_cpu", "=", "riscv64">>,
      <<"cc_wrapper", "=", "sccache">>,
      <<"use_thin_lto", "=", "false">>,
      <<"use_vaapi", "=", "true">>,
      <<"use_vaapi", "=", "a", "=", "b">>,
      <<"no_value">> }

OverrideLists == SeqsUpTo(OverrideItems, MaxOverrides)

ComposeArgsSet ==
    [ platform : {"auto"}, arch : {"auto"},
      release : BOOLEAN, debug : BOOLEAN, use_cache : BOOLEAN,
      pgo : BOOLEAN, lto : BOOLEAN, package : {FALSE},
      android_arch : {None, "x86"}, clean : {FALSE}, gn_args : OverrideLists ]

ComposeConfigs ==
    [ platform : Platforms, arch : {"x64", "arm32"}, src_dir : {LocalSrc},
      out_dir : {<<LocalSrc, "out">>}, depot_tools_path : {"dir of gclient"} ]

InitArgs ==
    /\ pc = "prepare"
    /\ args \in {a \in ComposeArgsSet : a.release # a.debug}
    /\ config \in ComposeConfigs
    /\ host = ProbedHost
    /\ which = [NoAnswers EXCEPT !["gclient"] = "found"]
    /\ fs = [NoPaths EXCEPT ![LocalSrc] = "present"]
    /\ environ = [NoEnv EXCEPT !["CR_DIR"] = "", !["CI"] = ""]
    /\ search_path = <<"$PATH">>
    /\ git = UnknownGit
    /\ manifest = UnknownManifest
    /\ stages = [st \in Stages |->
                    IF st \in {"probe", "validate"} THEN "ok" ELSE "not_run"]
    /\ NothingDone
    /\ ToolsIdle

NextArgs == PrepareStep

SpecArgs == InitArgs /\ [][NextArgs]_vars

(* C3: override dominance.  Whenever prepare_build_args returns a mapping,   *)
(* every key named by a user override item is in the mapping, and its value  *)
(* is the value of the last override item naming that key, whatever the      *)
(* base, cache, platform or optimization layer set for it.                   *)
OverrideDominance ==
    (pc = "gn_gen") =>
        \A i \in 1..Len(args.gn_args) :
            LET key  == SplitKey(args.gn_args[i])
                last == CHOOSE j \in 1..Len(args.gn_args) :
                            /\ SplitKey(args.gn_args[j]) = key
                            /\ \A m \in (j + 1)..Len(args.gn_args) :
                                  SplitKey(args.gn_args[m]) # key
            IN  /\ HasKey(build_args, key)
                /\ Lookup(build_args, key) = SplitValue(args.gn_args[last])

(* C3 witness: on raspi, where the platform layer fixes target_cpu to arm64, *)
(* with caching on, two overrides have replaced the platform layer's         *)
(* target_cpu and the cache layer's cc_wrapper.                              *)
OverrideDominanceWitness ==
    /\ pc = "gn_gen"
    /\ config.platform = "raspi"
    /\ args.use_cache
    /\ args.gn_args = << <<"target_cpu", "=", "riscv64">>,
                         <<"cc_wrapper", "=", "sccache">> >>
    /\ Lookup(build_args, T("target_cpu")) = T("riscv64")
    /\ Lookup(build_args, T("cc_wrapper")) = T("sccache")

-----------------------------------------------------------------------------
(* Argument composition called again: after prepare_build_args has returned *)
(* a mapping it is called a second time on the same builder with the same   *)
(* arguments, in the process environment the first call left.  Each call    *)
(* with caching on may start the sccache server again, so the calls are     *)
(* counted by the servers started.                                          *)

ComposeAgain ==
    /\ pc = "gn_gen"
    /\ stages["compose"] = "ok"
    /\ gn_exit = NoCode
    /\ Len(calls) <= MaxServerStarts
    /\ pc' = "prepare"
    /\ UNCHANGED <<toolVars, cfgVars, hostVars, genVars, ninjaVars, ninja_ok, pkgVars, stages,
                   calls, diagnostics, raised, endVars>>

NextTwice == PrepareStep \/ ComposeAgain

SpecTwice == InitArgs /\ [][NextTwice]_vars

-----------------------------------------------------------------------------
(* run_gn_gen on its own: every composed mapping, written over every prior  *)
(* state of build_dir/args.gn.                                              *)

GnArgsSet ==
    { a \in [ platform : {"auto"}, arch : {"auto"},
              release : BOOLEAN, debug : BOOLEAN, use_cache : BOOLEAN,
              pgo : {FALSE}, lto : BOOLEAN, package : {FALSE},
              android_arch : {None}, clean : {FALSE}, gn_args : OverrideLists ] :
        a.release # a.debug /\ ~OverridesRaise(a.gn_args) }

GnConfigs ==
    [ platform : Platforms, arch : {"x64"}, src_dir : {LocalSrc},
      out_dir : {<<LocalSrc, "out">>}, depot_tools_path : {"dir of gclient"} ]

(* args.gn before the generation: no file, the file of an earlier           *)
(* generation with a key the new mapping may not have, or an empty file     *)
PriorArgsGn ==
    { [state |-> "absent", text |-> <<>>],
      [state |-> "file", text |-> <<>>],
      [state |-> "file",
       text |-> <<"is_debug", " ", "=", " ", "true", "\n",
                  "use_goma", " ", "=", " ", "true">>] }

InitGn ==
    /\ pc = "gn_gen"
    /\ args \in GnArgsSet
    /\ config \in GnConfigs
    /\ host = ProbedHost
    /\ which \in IF args.use_cache
                  THEN Asked([NoAnswers EXCEPT !["gclient"] = "found"],
                             CacheCommandsAsked(config.platform))
                  ELSE {[NoAnswers EXCEPT !["gclient"] = "found"]}
    /\ fs = [NoPaths EXCEPT ![LocalSrc] = "present"]
    /\ environ = IF args.use_cache
                 THEN SetupBuildCacheEnv([NoEnv EXCEPT !["CR_DIR"] = "", !["CI"] = ""],
                                         config.platform, which)
                 ELSE [NoEnv EXCEPT !["CR_DIR"] = "", !["CI"] = ""]
    /\ search_path = <<"$PATH">>
    /\ build_dir = <<BuildType(args), config.platform, config.arch>>
    /\ build_args = PrepareBuildArgs(config, args).map
    /\ args_gn \in PriorArgsGn
    /\ gn_exit = NoCode
    /\ child = NoChild
    /\ produced = <<>>
    /\ pipe = <<>>
    /\ relayed = <<>>
    /\ ninja_exit = NoCode
    /\ ninja_ok = FALSE
    /\ git = UnknownGit
    /\ manifest = UnknownManifest
    /\ version = <<>>
    /\ formats = [f \in Formats |-> "not_attempted"]
    /\ stages = [st \in Stages |->
                    IF st \in {"probe", "validate", "compose"} THEN "ok"
                    ELSE "not_run"]
    /\ calls = IF args.use_cache
               THEN SetupBuildCacheCalls(config.platform, which) ELSE <<>>
    /\ diagnostics = {}
    /\ raised = NoExc
    /\ retval = FALSE
    /\ exit_code = NoCode
    /\ uncaught = NoExc
    /\ ToolsIdle

NextGn == RunGnGen

SpecGn == InitGn /\ [][NextGn]_vars

(* The lines of a text, read back as the stretches between its newlines *)
LineBreaks(text) == { i \in 1..Len(text) : text[i] = "\n" }

NthBreak(text, n) ==
    IF n = 0 THEN 0
    ELSE IF n > Cardinality(LineBreaks(text)) THEN Len(text) + 1
    ELSE CHOOSE i \in LineBreaks(text) :
            Cardinality({ j \in LineBreaks(text) : j <= i }) = n

TextLines(text) ==
    IF text = <<>> THEN <<>>
    ELSE [ n \in 1..(Cardinality(LineBreaks(text)) + 1) |->
             SubSeq(text, NthBreak(text, n - 1) + 1, NthBreak(text, n) - 1) ]

(* C15: after run_gn_gen the configuration file holds exactly one           *)
(* "key = value" line per entry of the argument set, in insertion order,    *)
(* and nothing else, whatever the file held before.                         *)
ArgsFileIsTheMapping ==
    (pc # "gn_gen") =>
        /\ args_gn.state = "file"
        /\ LET lines == TextLines(args_gn.text)
           IN  /\ Len(lines) = Len(build_args)
               /\ \A i \in 1..Len(lines) :
                    lines[i] = build_args[i].k \o <<" ", "=", " ">>
                               \o build_args[i].v

(* C15 witness: gn exited 0 after a generation with an is_debug override;   *)
(* the file holds the override's is_debug line and no use_goma line, which  *)
(* an earlier generation's file had.                                        *)
ArgsFileIsTheMappingWitness ==
    /\ pc # "gn_gen"
    /\ args.gn_args = << <<"is_debug", "=", "maybe">> >>
    /\ ~HasKey(build_args, T("use_goma"))
    /\ \A i \in 1..Len(args_gn.text) : args_gn.text[i] # "use_goma"
    /\ \E i \in 1..(Len(args_gn.text) - 4) :
            SubSeq(args_gn.text, i, i + 4) = <<"is_debug", " ", "=", " ", "maybe">>
    /\ gn_exit = 0

-----------------------------------------------------------------------------
(* The probe on its own: BuildConfig() for every report of the host and     *)
(* every layout of the source-tree candidates.                              *)

ProbeSystems == {"Linux", "Darwin", "Windows", "FreeBSD"}
ProbeMachines == {"x86_64", "AMD64", "aarch64", "arm64", "armv7l", "riscv64",
                  "i686"}
ProbeModels ==
    { [readable |-> FALSE, text |-> <<>>],
      [readable |-> TRUE, text |-> <<"Raspberry", "Pi", "Model", "B">>],
      [readable |-> TRUE, text |-> <<"RASPBERRY", "PI", "4">>],
      [readable |-> TRUE, text |-> <<"Generic", "Board">>] }
ProbeHosts == [system : ProbeSystems, machine : ProbeMachines, model : ProbeModels]

Candidates == {CrDir, CiSrc, HomeSrc, LocalSrc}

InitProbe ==
    /\ pc = "config"
    /\ args = DefaultRelease(ArgparseDefaults)
    /\ config = NoConfig
    /\ host \in ProbeHosts
    /\ which = NoAnswers
    /\ \E present \in SUBSET Candidates :
        fs = [q \in Paths |-> IF q \in Candidates THEN PresentIf(q \in present)
                              ELSE "unknown"]
    /\ \E cr \in {"", "/cr"}, ci \in {"", "1"} :
        /\ cr = "" => fs[CrDir] = "absent"
        /\ environ = [NoEnv EXCEPT !["CR_DIR"] = cr, !["CI"] = ci]
    /\ search_path = <<"$PATH">>
    /\ git = UnknownGit
    /\ manifest = UnknownManifest
    /\ stages = [st \in Stages |-> "not_run"]
    /\ NothingDone
    /\ ToolsIdle

NextProbe == BuildConfigInit

SpecProbe == InitProbe /\ [][NextProbe]_vars

Probed == pc = "override"

(* A candidate exists when its directory does; the explicit override is a   *)
(* candidate only when CR_DIR is set and the CI checkout only in CI mode.   *)
CandidateExists(q) ==
    CASE q = CrDir -> environ["CR_DIR"] # "" /\ fs[CrDir] = "present"
      [] q = CiSrc -> environ["CI"] # "" /\ fs[CiSrc] = "present"
      [] q = HomeSrc -> fs[HomeSrc] = "present"
      [] OTHER -> TRUE

FirstExistingCandidate ==
    IF CandidateExists(CrDir) THEN CrDir
    ELSE IF CandidateExists(CiSrc) THEN CiSrc
    ELSE IF CandidateExists(HomeSrc) THEN HomeSrc
    ELSE LocalSrc

(* C11: source-directory resolution picks the first existing candidate in   *)
(* the order CR_DIR, CI checkout, home checkout, local default: the         *)
(* resolved src_dir is the highest-priority candidate that exists, and the  *)
(* local default only when none of the others does.                         *)
SrcDirIsFirstExisting ==
    Probed => config.src_dir = FirstExistingCandidate

(* C12: for an OS report of Linux, Darwin or Windows and any CPU report the *)
(* probe yields a platform in {linux, macos, windows, raspi} and an         *)
(* architecture in {x64, arm64, arm32, unknown}; any other OS report        *)
(* raises.                                                                  *)
ProbeYieldsClosedIdentity ==
    (pc # "config") =>
        IF host.system \in {"Linux", "Darwin", "Windows"}
        THEN /\ Probed
             /\ config.platform \in {"linux", "macos", "windows", "raspi"}
             /\ config.arch \in {"x64", "arm64", "arm32", "unknown"}
        ELSE uncaught = "ValueError"

(* C13: on Linux with a device-model file that says Raspberry Pi, in any    *)
(* letter case, the resolved identity is platform raspi with architecture   *)
(* arm64, whatever the CPU report is.                                       *)
RaspiIsArm64 ==
    (Probed /\ host.system = "Linux" /\ SaysRaspberryPi(host.model)) =>
        /\ config.platform = "raspi"
        /\ config.arch = "arm64"

-----------------------------------------------------------------------------
(* Version resolution on its own: every outcome of the query and every state *)
(* of the manifest.                                                          *)

GitOutputs ==
    { <<"v1", ".", "2", "-", "45", "-", "gabcdef", "\n">>,
      <<" ", "v1", ".", "2", "-", "dirty", " ", "\n">>,
      <<"abc1234", "\n">>,
      <<"v1", " ", ".", "2">>,
      <<"\n">>,
      <<>> }

GitOutcomes ==
    {[kind |-> "ok", out |-> o] : o \in GitOutputs}
        \cup {[kind |-> k, out |-> <<>>] : k \in {"nonzero", "notfound"}}

ManifestLines ==
    { <<"MAJOR", "=", "120">>,
      <<"MINOR", "=", "0">>,
      <<"BUILD", "=", "6099">>,
      <<"PATCH", "=", "109">>,
      <<" ", "MAJOR", " ", "=", " ", "7", " ">>,
      <<"PATCH", "=">>,
      <<"junk">> }

ManifestTexts ==
    {Join(T("\n"), ls) : ls \in SeqsUpTo(ManifestLines, MaxManifestLines)}

ManifestStates ==
    {[state |-> "file", text |-> t] : t \in ManifestTexts}
        \cup {[state |-> k, text |-> <<>>] : k \in {"absent", "unreadable"}}

InitVersion ==
    /\ pc = "get_version"
    /\ args = [ArgparseDefaults EXCEPT !.release = TRUE, !.package = TRUE,
                                       !.use_cache = FALSE]
    /\ config \in [platform : {"linux", "windows", "macos"}, arch : {"x64"},
                    src_dir : {LocalSrc}, out_dir : {<<LocalSrc, "out">>},
                    depot_tools_path : {"dir of gclient"}]
    /\ host = ProbedHost
    /\ which = [NoAnswers EXCEPT !["gclient"] = "found"]
    /\ fs = [NoPaths EXCEPT ![LocalSrc] = "present"]
    /\ environ = [NoEnv EXCEPT !["CR_DIR"] = "", !["CI"] = ""]
    /\ search_path = <<"$PATH">>
    /\ git \in GitOutcomes
    /\ manifest \in ManifestStates
    /\ stages = [st \in Stages |->
                    IF st = "package" THEN "running" ELSE "ok"]
    /\ NothingDone
    /\ ToolsIdle

NextVersion == GetVersionStep

SpecVersion == InitVersion /\ [][NextVersion]_vars

Versioned == pc \in {"tar", "zip", "bundle"}

(* The value of one component as the manifest states it: the stripped value  *)
(* of the last key=value line whose stripped key is the component's name,    *)
(* and 0 when no line names it.                                              *)
ManifestComponent(text, name) ==
    LET lines == SplitLines(text)
        named == {i \in 1..Len(lines) :
                    /\ HasEq(lines[i])
                    /\ Strip(SplitKey(lines[i])) = T(name)}
    IN  IF named = {} THEN T("0")
        ELSE Strip(SplitValue(lines[CHOOSE i \in named : \A j \in named : j <= i]))

Trimmed(text, out) ==
    /\ \E i \in 1..(Len(out) + 1) : \E j \in 0..Len(out) :
        /\ text = SubSeq(out, i, j)
        /\ \A k \in 1..Len(out) : (k < i \/ k > j) => IsSpace(out[k])
    /\ text # <<>> => (~IsSpace(text[1]) /\ ~IsSpace(text[Len(text)]))

(* What the three tiers give for the query outcome and manifest state of    *)
(* the run: the trimmed output of a successful query, whatever the manifest  *)
(* is; MAJOR.MINOR.BUILD.PATCH as the manifest states them when the query    *)
(* failed and the manifest file was read; 0.0.0.0 when the query failed and    *)
(* the file is absent.                                                       *)
TierVersion ==
    /\ GitSucceeded(git) => Trimmed(version, git.out)
    /\ (~GitSucceeded(git) /\ manifest.state = "file") =>
          version = ManifestComponent(manifest.text, "MAJOR") \o T(".")
                    \o ManifestComponent(manifest.text, "MINOR") \o T(".")
                    \o ManifestComponent(manifest.text, "BUILD") \o T(".")
                    \o ManifestComponent(manifest.text, "PATCH")
    /\ (~GitSucceeded(git) /\ manifest.state = "absent") =>
          version = <<"0", ".", "0", ".", "0", ".", "0">>

(* C9: the three-tier fallback.  Once _get_version has been called it has    *)
(* produced a version, and that version is the trimmed output of the query   *)
(* if the query succeeded, MAJOR.MINOR.BUILD.PATCH read from the manifest    *)
(* if the query failed and the manifest file exists, and 0.0.0.0 if the      *)
(* query failed and the file is absent.                                      *)
ThreeTierFallback ==
    (pc # "get_version") => (raised = NoExc /\ TierVersion)

(* The part of C9 that the code keeps: on every run in which _get_version    *)
(* returns, the version returned is the one the three tiers give.            *)
ReturnedVersionFollowsTiers == Versioned => TierVersion

(* C10: version resolution never raises and always returns a non-empty       *)
(* dotted string, whatever the query's outcome and the manifest's state.     *)
VersionNeverRaisesNonEmptyDotted ==
    (pc # "get_version") =>
        /\ raised = NoExc
        /\ version # <<>>
        /\ \E i \in 1..Len(version) : version[i] = "."

-----------------------------------------------------------------------------
(* run_ninja_build on its own, from the call in build() after a successful  *)
(* generation to its return.                                                *)

NinjaArgs == {[ArgparseDefaults EXCEPT !.release = TRUE, !.package = p] :
                p \in BOOLEAN}

NinjaConfig ==
    [platform |-> "linux", arch |-> "x64", src_dir |-> LocalSrc,
     out_dir |-> <<LocalSrc, "out">>, depot_tools_path |-> "dir of gclient"]

InitNinja ==
    /\ pc = "ninja"
    /\ args \in NinjaArgs
    /\ config = NinjaConfig
    /\ host = ProbedHost
    /\ which \in Asked([NoAnswers EXCEPT !["gclient"] = "found",
                                         !["python3"] = "found",
                                         !["ninja"] = "found",
                                         !["pkg-config"] = "found"], {"ccache"})
    /\ fs = [NoPaths EXCEPT ![LocalSrc] = "present", !["build_dir"] = "present"]
    /\ environ = SetupBuildCacheEnv([NoEnv EXCEPT !["CR_DIR"] = "", !["CI"] = ""],
                                    "linux", which)
    /\ search_path = <<"$PATH">>
    /\ build_dir = <<"Release", "linux", "x64">>
    /\ build_args = PrepareBuildArgs(config, args).map
    /\ args_gn = [state |-> "file", text |-> ArgsContent(build_args)]
    /\ gn_exit = 0
    /\ child = NoChild
    /\ produced = <<>>
    /\ pipe = <<>>
    /\ relayed = <<>>
    /\ ninja_exit = NoCode
    /\ ninja_ok = FALSE
    /\ git = UnknownGit
    /\ manifest = UnknownManifest
    /\ version = <<>>
    /\ formats = [f \in Formats |-> "not_attempted"]
    /\ stages = [st \in Stages |->
                    IF st \in {"build", "package"} THEN "not_run" ELSE "ok"]
    /\ calls = <<"gn">>
    /\ diagnostics = {}
    /\ raised = NoExc
    /\ retval = FALSE
    /\ exit_code = NoCode
    /\ uncaught = NoExc
    /\ ToolsIdle

NextNinja ==
    \/ StartNinja
    \/ ChildWrite(MaxLines)
    \/ ChildClose
    \/ ChildExit
    \/ ReadLine
    \/ ReadEof
    \/ WaitNinja

SpecNinja == InitNinja /\ [][NextNinja]_vars

NinjaReturned == ninja_exit # NoCode

(* C4: stdout and stderr of the child are relayed as one stream, line by    *)
(* line in the order produced (what is printed, followed by what is still   *)
(* unread, is always exactly what the child wrote); run_ninja_build returns *)
(* only when the stream is closed and the process has exited; the value it  *)
(* returns is true exactly when the exit code is 0; and at the return,      *)
(* failing or not, every line the child produced has been printed.          *)
StreamedInOrderUntilExit ==
    /\ relayed \o pipe = produced
    /\ NinjaReturned =>
        /\ child.state = "exited"
        /\ ninja_exit = child.code
        /\ ninja_ok = (ninja_exit = 0)
        /\ pipe = <<>>
        /\ relayed = produced

(* C4 witness: the child wrote three lines, on stderr and on stdout, and    *)
(* exited with code 1; run_ninja_build returned False with all three        *)
(* printed.                                                                 *)
StreamedInOrderUntilExitWitness ==
    /\ NinjaReturned
    /\ ninja_exit = 1
    /\ ~ninja_ok
    /\ Len(produced) = 3
    /\ \E i, j \in 1..3 : produced[i].fd = "stdout" /\ produced[j].fd = "stderr"
    /\ relayed = produced

-----------------------------------------------------------------------------
(* Claims about a whole run *)

Invoked(cmd) == \E i \in 1..Len(calls) : calls[i] = cmd

Returned == pc \in {"return", "exited"}

(* C1: no stage begins before its predecessor has completed successfully.   *)
(* gn gen has been invoked only if setup_environment returned success;      *)
(* autoninja has been invoked only if gn exited with code 0; package_build  *)
(* has been entered only if autoninja exited with code 0 and --package was  *)
(* given.                                                                   *)
StagesInOrder ==
    /\ Invoked("gn") => stages["validate"] = "ok"
    /\ stages["generate"] # "not_run" => stages["validate"] = "ok"
    /\ Invoked("autoninja") => (gn_exit = 0 /\ stages["generate"] = "ok")
    /\ stages["build"] # "not_run" => stages["generate"] = "ok"
    /\ (stages["package"] # "not_run" \/ pc = "package") =>
            /\ child.state = "exited"
            /\ ninja_exit = 0
            /\ stages["build"] = "ok"
            /\ args.package

(* C1 witness: a run that went through every stage: validation, gn,         *)
(* autoninja and the Linux packager, and returned success.                  *)
StagesInOrderWitness ==
    /\ pc = "exited"
    /\ exit_code = 0
    /\ stages["package"] = "ok"
    /\ formats["tar.xz"] = "produced"
    /\ Invoked("gn") /\ Invoked("autoninja") /\ Invoked("tar")

(* C2: main's exit code is 0 exactly when every attempted stage succeeded   *)
(* and 1 on any stage failure, and every fatal error, UnsupportedPlatform   *)
(* at probe time included, is reported with a short diagnostic and ends the *)
(* run through main's return, never by escaping main.  (An argparse usage   *)
(* error, exit code 2, is no stage.)                                        *)
ExitCodeReflectsStages ==
    (pc = "exited" /\ exit_code # 2) =>
        /\ uncaught = NoExc
        /\ exit_code \in {0, 1}
        /\ exit_code = 0 <=> \A st \in Stages : stages[st] \in {"ok", "not_run"}
        /\ exit_code = 1 => diagnostics # {}

(* C5: a non-zero exit of gn gen is a hard failure.  build returns False,   *)
(* autoninja and the packager are never invoked, the run ends with exit     *)
(* code 1, and args.gn stays in the build directory as it was written.      *)
GnFailureIsHard ==
    (gn_exit # NoCode /\ gn_exit # 0) =>
        /\ Returned
        /\ ~retval
        /\ pc = "exited" => exit_code = 1
        /\ ~Invoked("autoninja")
        /\ stages["build"] = "not_run"
        /\ stages["package"] = "not_run"
        /\ \A f \in Formats : formats[f] = "not_attempted"
        /\ fs["build_dir"] = "present"
        /\ args_gn = [state |-> "file", text |-> ArgsContent(build_args)]

(* C5 witness: gn exited with code 1 after args.gn was written with the     *)
(* composed arguments, and the run ended with exit code 1.                  *)
GnFailureIsHardWitness ==
    /\ pc = "exited"
    /\ gn_exit = 1
    /\ exit_code = 1
    /\ args_gn.state = "file"
    /\ Len(args_gn.text) > 0
    /\ "ERROR: GN generation failed" \in diagnostics

CacheSetupNotRun ==
    /\ which["ccache"] = "unasked"
    /\ which["sccache"] = "unasked"
    /\ \A n \in {"CCACHE_DIR", "CCACHE_COMPRESS", "CCACHE_COMPRESSLEVEL",
                 "CCACHE_MAXSIZE", "SCCACHE_DIR", "SCCACHE_CACHE_SIZE"} :
            environ[n] = Unset
    /\ ~Invoked("sccache")

DebFailureLeavesRpmAttempted ==
    (pc = "exited" /\ formats["deb"] = "failed") =>
        /\ which["rpmbuild"] # "unasked"
        /\ Found(which, "rpmbuild") => formats["rpm"] # "not_attempted"

Artifact(format) ==
    CASE format = "tar.xz" -> "artifacts/tar.xz"
      [] format = "deb" -> "artifacts/deb"
      [] format = "zip" -> "artifacts/zip"
      [] format = "dmg" -> "artifacts/dmg"
      [] OTHER -> "artifacts/none"

(* C8: if any attempted packaging format failed, the run ends with exit     *)
(* code 1 and the packaging stage is failed, and every artifact an earlier  *)
(* format produced in the run is still there.                               *)
PackagingFailureReported ==
    (pc = "exited" /\ \E f \in Formats : formats[f] = "failed") =>
        /\ exit_code = 1
        /\ stages["package"] = "failed"
        /\ \A f \in Formats : formats[f] = "produced" => Exists(fs, Artifact(f))

(* C8 witness: the tar archive was produced, dpkg-deb then failed; the run  *)
(* ended with exit code 1 and the archive in place.                         *)
PackagingFailureReportedWitness ==
    /\ pc = "exited"
    /\ formats["tar.xz"] = "produced"
    /\ formats["deb"] = "failed"
    /\ exit_code = 1
    /\ Exists(fs, "artifacts/tar.xz")

-----------------------------------------------------------------------------
(* macOS packaging on its own: package_build after a successful build, for  *)
(* every combination of the two bundle names in the build directory.        *)

MacConfigs ==
    [ platform : {"macos"}, arch : {"x64", "arm64"}, src_dir : {LocalSrc},
      out_dir : {<<LocalSrc, "out">>}, depot_tools_path : {"dir of gclient"} ]

InitMac ==
    /\ pc = "package"
    /\ args = [ArgparseDefaults EXCEPT !.release = TRUE, !.package = TRUE,
                                       !.use_cache = FALSE]
    /\ config \in MacConfigs
    /\ host = [system |-> "Darwin", machine |-> "arm64",
               model |-> [readable |-> FALSE, text |-> <<>>]]
    /\ which = [NoAnswers EXCEPT !["gclient"] = "found"]
    /\ \E bundles \in SUBSET {Tungsten, Chromium} :
        fs = [q \in Paths |->
                CASE q \in {Tungsten, Chromium} -> PresentIf(q \in bundles)
                  [] q \in {LocalSrc, "build_dir"} -> "present"
                  [] OTHER -> "unknown"]
    /\ environ = [NoEnv EXCEPT !["CR_DIR"] = "", !["CI"] = ""]
    /\ search_path = <<"$PATH">>
    /\ build_dir = <<"Release", "macos", config.arch>>
    /\ build_args = PrepareBuildArgs(config, args).map
    /\ args_gn = [state |-> "file", text |-> ArgsContent(build_args)]
    /\ gn_exit = 0
    /\ child = [state |-> "exited", code |-> 0]
    /\ produced = <<>>
    /\ pipe = <<>>
    /\ relayed = <<>>
    /\ ninja_exit = 0
    /\ ninja_ok = TRUE
    /\ git \in GitOutcomes
    /\ manifest \in RunManifests
    /\ version = <<>>
    /\ formats = [f \in Formats |-> "not_attempted"]
    /\ stages = [st \in Stages |-> IF st = "package" THEN "not_run" ELSE "ok"]
    /\ calls = <<"gn", "autoninja">>
    /\ diagnostics = {}
    /\ raised = NoExc
    /\ retval = FALSE
    /\ exit_code = NoCode
    /\ uncaught = NoExc
    /\ ToolsIdle

NextMac ==
    \/ PackageBuild
    \/ GetVersionStep
    \/ BundleStep
    \/ DmgStep
    \/ MainReturn
    \/ MainExcept

SpecMac == InitMac /\ [][NextMac]_vars

BundleNotFound == "ERROR: App bundle not found" \in diagnostics

(* C16: macOS packaging.  When the bundle is looked for: if Tungsten.app    *)
(* exists it is the one packaged and Chromium.app is left as it is; if only *)
(* Chromium.app exists it is renamed to Tungsten.app and then packaged, so  *)
(* that only Tungsten.app exists afterwards; if neither exists packaging    *)
(* fails with the bundle-not-found error.  hdiutil is only ever invoked     *)
(* with Tungsten.app present, and after the bundle-not-found error hdiutil  *)
(* has not been invoked and no image exists.                                *)
MacBundleHandling ==
    /\ [][BundleStep =>
            /\ fs[Tungsten] = "present" =>
                    (fs' = fs /\ pc' = "dmg" /\ ~BundleNotFound')
            /\ (fs[Tungsten] = "absent" /\ fs[Chromium] = "present") =>
                    /\ fs' = [fs EXCEPT ![Tungsten] = "present",
                                        ![Chromium] = "absent"]
                    /\ pc' = "dmg"
                    /\ ~BundleNotFound'
            /\ (fs[Tungsten] = "absent" /\ fs[Chromium] = "absent") =>
                    /\ fs' = fs
                    /\ BundleNotFound'
                    /\ pc' = "return"
                    /\ ~retval'
                    /\ stages'["package"] = "failed"]_vars
    /\ [](Invoked("hdiutil") => fs[Tungsten] = "present")
    /\ [](BundleNotFound =>
            /\ ~Invoked("hdiutil")
            /\ formats["dmg"] = "not_attempted"
            /\ fs["artifacts/dmg"] # "present"
            /\ pc = "exited" => exit_code = 1)

(* C16 witness: a macOS packaging run has ended with exit code 0: the       *)
(* bundle was located, only Tungsten.app exists in the build directory,     *)
(* and hdiutil has made the image from it.                                  *)
MacBundleHandlingWitness ==
    /\ pc = "exited"
    /\ exit_code = 0
    /\ fs[Tungsten] = "present"
    /\ fs[Chromium] = "absent"
    /\ calls = <<"gn", "autoninja", "git", "hdiutil">>
    /\ formats["dmg"] = "produced"
    /\ fs["artifacts/dmg"] = "present"

-----------------------------------------------------------------------------
(* C17: packaging on android and raspi returns success, produces no         *)
(* artifact and invokes no external tool: once package_build has run on     *)
(* one of them it has returned True, no format was attempted, no artifact   *)
(* exists, nothing was started after autoninja, nothing was raised, and     *)
(* the run ends with exit code 0.                                           *)
PlaceholderPackagingSucceeds ==
    (config.platform \in {"android", "raspi"} /\ stages["package"] # "not_run") =>
        /\ stages["package"] = "ok"
        /\ retval
        /\ raised = NoExc /\ uncaught = NoExc
        /\ \A f \in Formats : formats[f] = "not_attempted"
        /\ \A q \in {"artifacts/tar.xz", "artifacts/deb", "artifacts/zip",
                     "artifacts/dmg"} : fs[q] # "present"
        /\ calls[Len(calls)] = "autoninja"
        /\ ~Invoked("git")
        /\ pc \in {"return", "exited"}
        /\ pc = "exited" => exit_code = 0

(* C17 witness: a raspi run with --package has ended with exit code 0       *)
(* after the placeholder packager printed its notice.                       *)
PlaceholderPackagingSucceedsWitness ==
    /\ pc = "exited"
    /\ exit_code = 0
    /\ config.platform = "raspi"
    /\ args.package
    /\ stages["package"] = "ok"
    /\ "packaging not yet implemented" \in diagnostics

-----------------------------------------------------------------------------
(* Runs with user interruption: a KeyboardInterrupt may arrive at any point *)
(* of builder.build().  It propagates to main's handler, except while the   *)
(* git query of _get_version runs inside its try with a bare except.        *)

InBuild == {"setup", "depot_tools", "platform_env", "prepare", "gn_gen", "ninja",
            "stream", "wait", "package", "get_version", "tar", "deb", "rpm", "zip",
            "bundle", "dmg"}

Interrupt ==
    /\ pc \in InBuild
    /\ raised' = "KeyboardInterrupt"
    /\ pc' = "unwind"
    /\ UNCHANGED <<toolVars, cfgVars, hostVars, genVars, ninjaVars, ninja_ok, pkgVars, stages,
                   calls, diagnostics, endVars>>

(* _get_version, lines 536-545: the interruption arrives while              *)
(* subprocess.run(["git", "describe", ...]) runs; the bare except catches   *)
(* it like any failure of the query                                         *)
InterruptGit ==
    /\ pc = "get_version"
    /\ git = UnknownGit
    /\ git' = [kind |-> "interrupted", out |-> <<>>]
    /\ UNCHANGED <<toolVars, pc, cfgVars, hostVars, genVars, ninjaVars, ninja_ok, manifest,
                   version, formats, stages, calls, diagnostics, raised, endVars>>

NextInterrupt == Next \/ Interrupt \/ InterruptGit

SpecInterrupt == Init /\ [][NextInterrupt]_vars

Interrupted == raised = "KeyboardInterrupt" \/ git.kind = "interrupted"

(* C18: a user interruption arriving at any point of the pipeline is caught *)
(* and reported, and the run ends with exit code 1: a run that has ended    *)
(* after an interruption arrived has printed the interruption notice and    *)
(* exited with code 1.                                                      *)
InterruptionEndsRunWithOne ==
    (Interrupted /\ pc = "exited") =>
        /\ exit_code = 1
        /\ "Build interrupted by user" \in diagnostics

-----------------------------------------------------------------------------
(* C19: after command-line resolution exactly one of release and debug is   *)
(* true in every run.  A command line giving both is rejected by the        *)
(* parser and nothing runs; one giving neither resolves to release; and     *)
(* the build directory is named Release exactly when release is selected,   *)
(* Debug otherwise.                                                         *)
ExactlyOneBuildType ==
    /\ pc = "parse" =>
        \A c \in RunCommandLines :
            /\ ParseRejects(c) <=> (c.release /\ c.debug)
            /\ ~ParseRejects(c) =>
                /\ DefaultRelease(c).release # DefaultRelease(c).debug
                /\ (~c.release /\ ~c.debug) => DefaultRelease(c).release
                /\ (c.release \/ c.debug) => DefaultRelease(c) = c
    /\ "usage error" \in diagnostics =>
        /\ pc = "exited" /\ exit_code = 2
        /\ \A st \in Stages : stages[st] = "not_run"
        /\ calls = <<>>
    /\ (pc # "parse" /\ "usage error" \notin diagnostics) =>
        args.release # args.debug
    /\ build_dir # <<>> =>
        build_dir[1] = (IF args.release THEN "Release" ELSE "Debug")

(* C19 witness: a run with --debug has generated into a Debug directory     *)
(* with is_debug = true.                                                    *)
ExactlyOneBuildTypeWitness ==
    /\ args.debug /\ ~args.release
    /\ build_dir # <<>>
    /\ build_dir[1] = "Debug"
    /\ Invoked("gn")
    /\ Lookup(build_args, T("is_debug")) = T("true")

-----------------------------------------------------------------------------
(* C20: once main has applied the --platform and --arch overrides, no later *)
(* stage modifies the platform, arch, src_dir or out_dir of the             *)
(* BuildConfig, and out_dir is src_dir/out in every state of the run.       *)
ConfigFrozenAfterOverrides ==
    /\ [][pc \notin {"parse", "config", "override"} =>
            /\ config'.platform = config.platform
            /\ config'.arch = config.arch
            /\ config'.src_dir = config.src_dir
            /\ config'.out_dir = config.out_dir]_vars
    /\ [](config.out_dir = <<config.src_dir, "out">>)

(* C20 witness: a run with --platform raspi --arch arm64 on another host    *)
(* has found depot_tools in a fallback directory, recorded it in the        *)
(* BuildConfig, and ended after packaging; platform and arch are still the  *)
(* overrides.                                                               *)
ConfigFrozenAfterOverridesWitness ==
    /\ pc = "exited"
    /\ args.platform = "raspi" /\ args.arch = "arm64"
    /\ host.system = "Darwin"
    /\ config.platform = "raspi" /\ config.arch = "arm64"
    /\ config.depot_tools_path = "/opt/depot_tools"
    /\ search_path = <<"/opt/depot_tools", "$PATH">>
    /\ stages["package"] = "ok"

-----------------------------------------------------------------------------
(* The keys the override list of the arguments names *)
OverrideNames(a) == { SplitKey(a.gn_args[i]) : i \in 1..Len(a.gn_args) }

(* The value the base layer gives a build-type key or a protocol feature *)
BaseDefault(a, key) ==
    CASE key = "is_official_build" -> Bool(a.release)
      [] key = "is_debug" -> Bool(a.debug)
      [] key = "symbol_level" -> IF a.debug THEN T("2") ELSE T("0")
      [] OTHER -> T("true")

(* C21: in every mapping prepare_build_args returns, each of the protocol   *)
(* features enable_nostr, enable_local_relay, enable_blossom_server and     *)
(* enable_nsite that the override list does not name is true, and, unless   *)
(* the override list names them, is_official_build is true exactly for      *)
(* release, is_debug is true exactly for debug, and symbol_level is 2 for   *)
(* debug and 0 otherwise; for every platform, architecture, cache, pgo and  *)
(* lto choice.                                                              *)
BaseDefaultsSurvive ==
    (pc = "gn_gen") =>
        \A key \in ProtocolFeatures \cup {"is_official_build", "is_debug", "symbol_level"} :
            T(key) \notin OverrideNames(args) =>
                /\ HasKey(build_args, T(key))
                /\ Lookup(build_args, T(key)) = BaseDefault(args, key)

(* C21 witness: a debug composition for android with caching, pgo and lto   *)
(* on and an override of use_vaapi has returned a mapping with the          *)
(* protocol features true, is_debug true and symbol_level 2.                *)
BaseDefaultsSurviveWitness ==
    /\ pc = "gn_gen"
    /\ args.debug /\ args.use_cache /\ args.pgo /\ args.lto
    /\ config.platform = "android"
    /\ args.gn_args = << <<"use_vaapi", "=", "true">> >>
    /\ \A key \in ProtocolFeatures : Lookup(build_args, T(key)) = T("true")
    /\ Lookup(build_args, T("is_debug")) = T("true")
    /\ Lookup(build_args, T("symbol_level")) = T("2")
    /\ Lookup(build_args, T("use_vaapi")) = T("true")

-----------------------------------------------------------------------------
(* How many times a command has been started *)
Started(cmd) == Cardinality({ i \in 1..Len(calls) : calls[i] = cmd })

GeneratorFailed == stages["generate"] = "failed"

ExecutorFailed ==
    \/ stages["build"] = "failed"
    \/ (child.state = "exited" /\ child.code # 0)

(* C22: no external process invocation is retried.  In every run gn is      *)
(* started at most once and autoninja at most once, and once gn has failed  *)
(* (non-zero exit or not startable) or autoninja has failed (non-zero exit  *)
(* or not startable), no step of the run starts another process: no gn, no  *)
(* autoninja, no version query and no packaging tool.                       *)
NoRetry ==
    /\ [](Started("gn") <= 1 /\ Started("autoninja") <= 1)
    /\ [][(GeneratorFailed \/ ExecutorFailed) => calls' = calls]_vars

(* C22 witness: a run with --package has ended after autoninja exited       *)
(* non-zero; gn and autoninja were each started once and autoninja is the   *)
(* last process the run started.                                            *)
NoRetryWitness ==
    /\ pc = "exited"
    /\ args.package
    /\ child.state = "exited" /\ child.code = 1
    /\ stages["build"] = "failed"
    /\ Started("gn") = 1 /\ Started("autoninja") = 1
    /\ calls[Len(calls)] = "autoninja"
    /\ exit_code = 1

-----------------------------------------------------------------------------
CacheEnvNames == {"CCACHE_DIR", "CCACHE_COMPRESS", "CCACHE_COMPRESSLEVEL",
                  "CCACHE_MAXSIZE", "SCCACHE_DIR", "SCCACHE_CACHE_SIZE"}

CcacheEstablished ==
    /\ environ["CCACHE_DIR"] # Unset
    /\ environ["CCACHE_COMPRESS"] # Unset
    /\ environ["CCACHE_COMPRESSLEVEL"] # Unset
    /\ environ["CCACHE_MAXSIZE"] # Unset

SccacheEstablished ==
    /\ environ["SCCACHE_DIR"] # Unset
    /\ environ["SCCACHE_CACHE_SIZE"] # Unset

(* C23: the compiler-cache layer.  After a composition with caching         *)
(* requested, the environment of a cache backend is established (ccache's   *)
(* on any platform, sccache's only on windows) and, unless an override      *)
(* names cc_wrapper, the mapping's cc_wrapper names a backend whose         *)
(* environment was established.  After a composition without caching, the   *)
(* mapping has no cc_wrapper unless an override names it, and no cache      *)
(* environment variable is set.                                             *)
CacheLayerConsistent ==
    (pc = "gn_gen") =>
        IF args.use_cache
        THEN /\ CcacheEstablished \/ (config.platform = "windows" /\ SccacheEstablished)
             /\ SccacheEstablished => config.platform = "windows"
             /\ T("cc_wrapper") \notin OverrideNames(args) =>
                    /\ HasKey(build_args, T("cc_wrapper"))
                    /\ \/ /\ Lookup(build_args, T("cc_wrapper")) = T("ccache")
                          /\ CcacheEstablished
                       \/ /\ Lookup(build_args, T("cc_wrapper")) = T("sccache")
                          /\ config.platform = "windows"
                          /\ SccacheEstablished
        ELSE /\ T("cc_wrapper") \notin OverrideNames(args) =>
                    ~HasKey(build_args, T("cc_wrapper"))
             /\ \A n \in CacheEnvNames : environ[n] = Unset

-----------------------------------------------------------------------------
(* C24: build-tooling discovery.  The step that runs _find_depot_tools asks *)
(* the search path for gclient first.  Found there: the directory of        *)
(* gclient is recorded, no fallback directory is looked at and the search   *)
(* path is unchanged.  Not found there: the fallback directories are looked *)
(* at in their fixed order; the first one that holds gclient is recorded    *)
(* and is put once in front of the search path: the new search path is     *)
(* that directory followed by the old one.  Found nowhere: validation       *)
(* fails, the recorded directory stays None and the search path is          *)
(* unchanged.                                                               *)
DiscoveryOrderAndFrame ==
    [][(pc = "depot_tools") =>
        IF which'["gclient"] = "found"
        THEN /\ config'.depot_tools_path = "dir of gclient"
             /\ search_path' = search_path
             /\ fs' = fs
             /\ pc' = "platform_env"
        ELSE IF \E k \in 1..Len(DepotFallbacks) : fs'[DepotFallbacks[k]] = "present"
        THEN \E k \in 1..Len(DepotFallbacks) :
                /\ fs'[DepotFallbacks[k]] = "present"
                /\ \A j \in 1..(k - 1) : fs'[DepotFallbacks[j]] = "absent"
                /\ config'.depot_tools_path = DepotFallbacks[k]
                /\ Head(search_path') = DepotFallbacks[k]
                /\ Tail(search_path') = search_path
                /\ pc' = "platform_env"
        ELSE /\ config'.depot_tools_path = None
             /\ config' = config
             /\ search_path' = search_path
             /\ stages'["validate"] = "failed"
             /\ retval' = FALSE
             /\ "ERROR: depot_tools not found" \in diagnostics'
    ]_vars

(* C24 witness: gclient was not on the search path and not in               *)
(* ~/depot_tools; /opt/depot_tools held it, was recorded and prepended, and *)
(* the third fallback was not looked at.                                    *)
DiscoveryOrderAndFrameWitness ==
    /\ pc = "platform_env"
    /\ which["gclient"] = "missing"
    /\ fs["~/depot_tools"] = "absent"
    /\ fs["/opt/depot_tools"] = "present"
    /\ fs["script/../depot_tools"] = "unknown"
    /\ config.depot_tools_path = "/opt/depot_tools"
    /\ search_path = <<"/opt/depot_tools", "$PATH">>

-----------------------------------------------------------------------------
(* Explicit --platform and --arch: main from the overrides to the composed  *)
(* mapping, for every probed host and every platform and architecture       *)
(* choice of the command line.                                              *)

OverrideArgsSet ==
    { a \in [ platform : {"auto"} \cup Platforms, arch : {"auto"} \cup ArchChoices,
              release : BOOLEAN, debug : BOOLEAN, use_cache : {FALSE},
              pgo : {FALSE}, lto : {FALSE}, package : {FALSE},
              android_arch : {None, "x86"}, clean : {FALSE},
              gn_args : {<<>>, << <<"use_vaapi", "=", "true">> >>} ] :
        a.release # a.debug }

SupportedHosts == { h \in RunHosts : DetectPlatform(h.system, h.model) # Unsupported }

InitOverride ==
    /\ pc = "override"
    /\ args \in OverrideArgsSet
    /\ host \in SupportedHosts
    /\ config = [platform |-> DetectPlatform(host.system, host.model),
                 arch |-> DetectArch(host.machine),
                 src_dir |-> LocalSrc, out_dir |-> <<LocalSrc, "out">>,
                 depot_tools_path |-> None]
    /\ which = NoAnswers
    /\ fs = NoPaths
    /\ environ = [NoEnv EXCEPT !["CR_DIR"] = "", !["CI"] = ""]
    /\ search_path = <<"$PATH">>
    /\ git = UnknownGit
    /\ manifest = UnknownManifest
    /\ stages = [st \in Stages |-> IF st = "probe" THEN "ok" ELSE "not_run"]
    /\ NothingDone
    /\ ToolsIdle

NextOverride ==
    \/ ApplyConfigOverrides
    \/ CheckSourceDir
    \/ FindDepotTools
    \/ SetupWindowsEnv
    \/ SetupMacosEnv
    \/ SetupLinuxEnv
    \/ SetupAndroidEnv
    \/ PrepareStep

SpecOverride == InitOverride /\ [][NextOverride]_vars

(* The platform and architecture later stages are to use: the explicit      *)
(* choice, or the probed value when the choice is auto                      *)
EffectivePlatform ==
    IF args.platform # "auto" THEN args.platform
    ELSE DetectPlatform(host.system, host.model)

EffectiveArch ==
    IF args.arch # "auto" THEN args.arch ELSE DetectArch(host.machine)

TargetOsOf(platform) ==
    CASE platform = "windows" -> "win"
      [] platform = "macos" -> "mac"
      [] platform = "android" -> "android"
      [] OTHER -> "linux"

(* C25: an explicit platform or architecture replaces the probed value for  *)
(* every later stage.  In every composition, the build directory is named   *)
(* after the build type, the effective platform and the effective           *)
(* architecture, target_os is the one of the effective platform, and, when  *)
(* the architecture was given explicitly, target_cpu is that architecture   *)
(* (on android, the --android-arch choice when one was given).              *)
OverridesReachEveryStage ==
    (pc = "gn_gen") =>
        /\ build_dir = <<BuildType(args), EffectivePlatform, EffectiveArch>>
        /\ Lookup(build_args, T("target_os")) = T(TargetOsOf(EffectivePlatform))
        /\ args.arch # "auto" =>
              Lookup(build_args, T("target_cpu")) =
                  IF EffectivePlatform = "android" /\ args.android_arch # None
                  THEN T(args.android_arch)
                  ELSE T(args.arch)

-----------------------------------------------------------------------------
(* C26: each override item is split on its first "=" only.  In every        *)
(* mapping prepare_build_args returns, each override item begins with a key *)
(* of the mapping that has no "=" in it, followed by "=", and the value     *)
(* stored under that key, put after the key and "=", gives back in full     *)
(* that item or a later item with the same key: the stored value is         *)
(* everything after the first "=", further "=" included.                    *)
SplitOnFirstEqOnly ==
    (pc = "gn_gen") =>
        \A i \in 1..Len(args.gn_args) :
            \E j \in 1..Len(build_args) :
                LET key   == build_args[j].k
                    value == build_args[j].v
                    item  == args.gn_args[i]
                IN  /\ ~HasEq(key)
                    /\ Len(item) > Len(key)
                    /\ SubSeq(item, 1, Len(key) + 1) = key \o <<"=">>
                    /\ \E m \in i..Len(args.gn_args) :
                          args.gn_args[m] = key \o <<"=">> \o value

(* C26 witness: the override use_vaapi=a=b has been composed after          *)
(* use_vaapi=true and the mapping holds a=b under use_vaapi.                *)
SplitOnFirstEqOnlyWitness ==
    /\ pc = "gn_gen"
    /\ args.gn_args = << <<"use_vaapi", "=", "true">>,
                         <<"use_vaapi", "=", "a", "=", "b">> >>
    /\ Lookup(build_args, T("use_vaapi")) = <<"a", "=", "b">>

-----------------------------------------------------------------------------
(* --clean: build() from the naming of the build directory to the return of *)
(* run_gn_gen, over a build directory that an earlier build may have left   *)
(* with outputs (build_dir/obj) and a configuration file.                   *)

CleanArgsSet ==
    { [ArgparseDefaults EXCEPT !.release = r, !.debug = ~r, !.clean = c,
                               !.use_cache = u, !.gn_args = g] :
        r \in BOOLEAN, c \in BOOLEAN, u \in BOOLEAN,
        g \in {<<>>, << <<"use_vaapi", "=", "true">> >>} }

PriorBuildDirs ==
    { [dir |-> "absent", obj |-> "absent"],
      [dir |-> "present", obj |-> "absent"],
      [dir |-> "present", obj |-> "present"] }

InitClean ==
    /\ pc = "prepare"
    /\ args \in CleanArgsSet
    /\ config \in GnConfigs
    /\ host = ProbedHost
    /\ which = [NoAnswers EXCEPT !["gclient"] = "found"]
    /\ \E prior \in PriorBuildDirs :
        /\ fs = [NoPaths EXCEPT ![LocalSrc] = "present",
                                !["build_dir"] = prior.dir,
                                !["build_dir/obj"] = prior.obj]
        /\ args_gn \in IF prior.dir = "absent"
                        THEN {[state |-> "absent", text |-> <<>>]}
                        ELSE PriorArgsGn
    /\ environ = [NoEnv EXCEPT !["CR_DIR"] = "", !["CI"] = ""]
    /\ search_path = <<"$PATH">>
    /\ git = UnknownGit
    /\ manifest = UnknownManifest
    /\ stages = [st \in Stages |->
                    IF st \in {"probe", "validate"} THEN "ok" ELSE "not_run"]
    /\ build_dir = <<>>
    /\ build_args = <<>>
    /\ gn_exit = NoCode
    /\ child = NoChild
    /\ produced = <<>>
    /\ pipe = <<>>
    /\ relayed = <<>>
    /\ ninja_exit = NoCode
    /\ ninja_ok = FALSE
    /\ version = <<>>
    /\ formats = [f \in Formats |-> "not_attempted"]
    /\ calls = <<>>
    /\ diagnostics = {}
    /\ raised = NoExc
    /\ retval = FALSE
    /\ exit_code = NoCode
    /\ uncaught = NoExc
    /\ ToolsIdle

NextClean == PrepareStep \/ RunGnGen

SpecClean == InitClean /\ [][NextClean]_vars

(* C27: with --clean, once the configuration file has been written and gn   *)
(* started, the outputs an earlier build left in the build directory are    *)
(* gone; without --clean no step removes them.                              *)
CleanBeforeBuild ==
    /\ []((args.clean /\ Invoked("gn")) => fs["build_dir/obj"] = "absent")
    /\ [][~args.clean => fs'["build_dir/obj"] = fs["build_dir/obj"]]_vars

-----------------------------------------------------------------------------
(* bundle_libraries.py: main downloads and verifies each library in turn.   *)
(* The content of a file is one atom; two contents have the same SHA-256    *)
(* exactly when they are the same content.                                  *)

AllLibraries == <<"ndk", "nostr-tools", "applesauce", "nostrify", "alby-sdk">>

LibraryNames == SubSeq(AllLibraries, 1, MaxLibraries)

Libraries == Range(LibraryNames)

(* What a file at output_path can hold: the published release, the release  *)
(* before it, something else, or the beginning of an interrupted download   *)
Contents == {"release", "previous", "tampered", "partial"}

calculate_sha256(content) ==
    CASE content = "release" -> "sha256 of release"
      [] content = "previous" -> "sha256 of previous"
      [] content = "tampered" -> "sha256 of tampered"
      [] content = "partial" -> "sha256 of partial"

(* download_file, lines 65-76.  The request fails before output_path is     *)
(* opened, or the copy fails after open(output_path, 'wb') truncated the    *)
(* file, or the response is copied in full.  Every exception is caught.     *)
DownloadOutcomes == {"no response", "copy failed",
                     "release", "previous", "tampered"}

download_file(file, outcome) ==
    CASE outcome = "no response" -> [ok |-> FALSE, file |-> file]
      [] outcome = "copy failed" -> [ok |-> FALSE, file |-> "partial"]
      [] OTHER -> [ok |-> TRUE, file |-> outcome]

(* main, lines 176-178 and 186: the next library of LIBRARIES *)
NextLibrary(name) ==
    IF name = None THEN LibraryNames[1]
    ELSE LibraryNames[1 + CHOOSE i \in 1..Len(LibraryNames) : LibraryNames[i] = name]

LastLibrary(name) == name = LibraryNames[Len(LibraryNames)]

BundleFrame ==
    UNCHANGED <<cfgVars, hostVars, genVars, ninjaVars, ninja_ok, pkgVars, stages,
                calls, diagnostics, raised, retval, uncaught, test_results, summary>>

ProcessLibrary ==
    /\ pc = "bundle_main"
    /\ ~LastLibrary(lib_name)
    /\ lib_name' = NextLibrary(lib_name)
    /\ pc' = "verify_library"
    /\ UNCHANGED <<update_hashes, hash_file, lib_hash, output_file, verified,
                   new_hashes, success, exit_code>>
    /\ BundleFrame

(* verify_library, lines 97-104 *)
VerifyExisting ==
    /\ pc = "verify_library"
    /\ IF /\ output_file[lib_name] # "absent"
          /\ lib_hash[lib_name] = calculate_sha256(output_file[lib_name])
       THEN /\ verified' = "True"
            /\ pc' = "verified"
       ELSE /\ pc' = "download"
            /\ UNCHANGED verified
    /\ UNCHANGED <<update_hashes, hash_file, lib_name, lib_hash, output_file,
                   new_hashes, success, exit_code>>
    /\ BundleFrame

(* verify_library, lines 106-108 *)
DownloadLibrary ==
    /\ pc = "download"
    /\ \E outcome \in DownloadOutcomes :
        LET r == download_file(output_file[lib_name], outcome)
        IN  /\ output_file' = [output_file EXCEPT ![lib_name] = r.file]
            /\ IF r.ok
               THEN /\ pc' = "check_hash"
                    /\ UNCHANGED verified
               ELSE /\ verified' = "False"
                    /\ pc' = "verified"
    /\ UNCHANGED <<update_hashes, hash_file, lib_name, lib_hash, new_hashes,
                   success, exit_code>>
    /\ BundleFrame

(* verify_library, lines 110-125 *)
CheckHash ==
    /\ pc = "check_hash"
    /\ LET actual_hash == calculate_sha256(output_file[lib_name])
       IN  IF lib_hash[lib_name] = None
           THEN /\ verified' = actual_hash
                /\ UNCHANGED output_file
           ELSE IF lib_hash[lib_name] # actual_hash
           THEN /\ output_file' = [output_file EXCEPT ![lib_name] = "absent"]
                /\ verified' = "False"
           ELSE /\ verified' = "True"
                /\ UNCHANGED output_file
    /\ pc' = "verified"
    /\ UNCHANGED <<update_hashes, hash_file, lib_name, lib_hash, new_hashes,
                   success, exit_code>>
    /\ BundleFrame

(* main, lines 186-193 *)
RecordResult ==
    /\ pc = "verified"
    /\ IF verified \notin {"True", "False"}
       THEN /\ new_hashes' = [new_hashes EXCEPT ![lib_name] = verified]
            /\ UNCHANGED success
       ELSE IF verified = "True"
       THEN /\ new_hashes' = [new_hashes EXCEPT ![lib_name] = lib_hash[lib_name]]
            /\ UNCHANGED success
       ELSE /\ success' = FALSE
            /\ UNCHANGED new_hashes
    /\ pc' = "bundle_main"
    /\ UNCHANGED <<update_hashes, hash_file, lib_name, lib_hash, output_file,
                   verified, exit_code>>
    /\ BundleFrame

StoredNothing(stored) == \A l \in Libraries : stored[l] = None

(* main, lines 195-205: save_hashes and the exit code *)
BundleReturn ==
    /\ pc = "bundle_main"
    /\ LastLibrary(lib_name)
    /\ hash_file' = IF update_hashes \/ StoredNothing(hash_file)
                    THEN new_hashes ELSE hash_file
    /\ exit_code' = IF success THEN 0 ELSE 1
    /\ pc' = "exited"
    /\ UNCHANGED <<update_hashes, lib_name, lib_hash, output_file, verified,
                   new_hashes, success>>
    /\ BundleFrame

(* main, lines 163-173: the stored hashes become the expected hashes; the   *)
(* output directory holds what earlier runs left.                           *)
InitBundle ==
    /\ pc = "bundle_main"
    /\ update_hashes \in BOOLEAN
    /\ hash_file \in [Libraries -> {None, "sha256 of release", "sha256 of previous"}]
    /\ lib_hash = hash_file
    /\ output_file \in [Libraries -> {"absent", "release", "previous", "tampered"}]
    /\ lib_name = None
    /\ verified = None
    /\ new_hashes = [l \in Libraries |-> None]
    /\ success = TRUE
    /\ test_results = <<>>
    /\ summary = None
    /\ args = ArgparseDefaults
    /\ host = UnknownHost
    /\ config = NoConfig
    /\ which = NoAnswers
    /\ fs = NoPaths
    /\ environ = NoEnv
    /\ search_path = <<"$PATH">>
    /\ git = UnknownGit
    /\ manifest = UnknownManifest
    /\ stages = [st \in Stages |-> "not_run"]
    /\ NothingDone

NextBundle ==
    \/ ProcessLibrary
    \/ VerifyExisting
    \/ DownloadLibrary
    \/ CheckHash
    \/ RecordResult
    \/ BundleReturn

SpecBundle == InitBundle /\ [][NextBundle]_vars

(* C28: for a library whose expected hash is known, when verify_library has *)
(* returned False no file with another SHA-256 than the expected one is at  *)
(* the output path, and when it has returned True the file at the output    *)
(* path has the expected SHA-256.                                           *)
NoUnverifiedFileLeft ==
    (pc = "verified" /\ lib_hash[lib_name] # None) =>
        /\ verified = "False" =>
              \/ output_file[lib_name] = "absent"
              \/ calculate_sha256(output_file[lib_name]) = lib_hash[lib_name]
        /\ verified = "True" =>
              /\ output_file[lib_name] # "absent"
              /\ calculate_sha256(output_file[lib_name]) = lib_hash[lib_name]

-----------------------------------------------------------------------------
SourceNotFound == "ERROR: Chromium source not found" \in diagnostics

(* What the source-directory check found, once a source directory is chosen *)
SourceDirIs(state) == config.src_dir \in Paths /\ fs[config.src_dir] = state

ToolDiscoveryRun ==
    \/ which["gclient"] # "unasked"
    \/ \E i \in 1..Len(DepotFallbacks) : fs[DepotFallbacks[i]] # "unknown"

PlatformCheckRun ==
    \/ \E i \in 1..Len(VsPaths) : fs[VsPaths[i]] # "unknown"
    \/ Invoked("xcode-select")
    \/ \E i \in 1..Len(RequiredCommands) : which[RequiredCommands[i]] # "unasked"
    \/ environ["ANDROID_HOME"] # Unread
    \/ environ["DEPOT_TOOLS_WIN_TOOLCHAIN"] # Unset

(* C29: the validation checks run in the order source directory, tool       *)
(* discovery, platform check and stop at the first failure.  Tool discovery *)
(* has run only when the source directory was found, and a platform check   *)
(* only when the tools were found.  When the source directory is missing,   *)
(* setup_environment fails and at no later time of the run has tool         *)
(* discovery or a platform check run, the search path been changed, a       *)
(* toolchain directory been recorded or an environment variable been set.   *)
ValidationStopsAtSourceDir ==
    /\ ToolDiscoveryRun => (SourceDirIs("present") /\ ~SourceNotFound)
    /\ PlatformCheckRun => (ToolDiscoveryRun /\ config.depot_tools_path # None)
    /\ (pc # "setup" /\ SourceDirIs("absent")) => SourceNotFound
    /\ SourceNotFound =>
          /\ stages["validate"] = "failed"
          /\ ~ToolDiscoveryRun
          /\ ~PlatformCheckRun
          /\ search_path = <<"$PATH">>
          /\ config.depot_tools_path = None
          /\ \A n \in EnvNames \ {"CR_DIR", "CI", "ANDROID_HOME"} : environ[n] = Unset
          /\ calls = <<>>

(* C29 witness: a run on a host whose CR_DIR names a missing directory has  *)
(* ended with exit code 1 after the source-directory check alone.           *)
ValidationStopsAtSourceDirWitness ==
    /\ pc = "exited"
    /\ exit_code = 1
    /\ SourceNotFound
    /\ config.src_dir = CrDir
    /\ SourceDirIs("absent")
    /\ which["gclient"] = "unasked"
    /\ search_path = <<"$PATH">>

-----------------------------------------------------------------------------
(* run_performance_tests.py: generate_summary over the results of each      *)
(* category.  A test result is its success flag and the NostrServiceInit    *)
(* values among its metrics (none for a timeout or a test that reports      *)
(* none).                                                                   *)

CategoryOrder == <<"startup", "memory">>

SummaryCategories == Range(CategoryOrder)

StartupOverheadMs == 50

TestResults == [success : BOOLEAN, metrics : {<<>>, <<40>>, <<60>>}]

RECURSIVE Sum(_)
Sum(q) == IF q = <<>> THEN 0 ELSE Head(q) + Sum(Tail(q))

(* lines 200-215: the loop over the results of one category *)
RECURSIVE CountResults(_, _)
CountResults(category_summary, category_results) ==
    IF category_results = <<>> THEN category_summary
    ELSE LET test_result == Head(category_results)
         IN  CountResults(
                [category_summary EXCEPT
                    !.total = @ + 1,
                    !.passed = IF test_result.success THEN @ + 1 ELSE @,
                    !.failed = IF test_result.success THEN @ ELSE @ + 1,
                    !.metrics = @ \o test_result.metrics],
                Tail(category_results))

(* lines 193-198 and 200-215 *)
CategorySummary(category_results) ==
    CountResults([total |-> Len(category_results), passed |-> 0, failed |-> 0,
                  metrics |-> <<>>],
                 category_results)

(* lines 218-228: sum(startup_times) / len(startup_times) > threshold *)
StartupIssue(category_summary) ==
    /\ category_summary.metrics # <<>>
    /\ Sum(category_summary.metrics) > StartupOverheadMs * Len(category_summary.metrics)

RECURSIVE SumOver(_, _, _)
SumOver(categories, field, order) ==
    IF order = <<>> THEN 0
    ELSE categories[Head(order)][field] + SumOver(categories, field, Tail(order))

(* summary['total_tests'] += 1 once for every test result, line 201 *)
RECURSIVE Iterations(_, _)
Iterations(results, order) ==
    IF order = <<>> THEN 0
    ELSE Len(results[Head(order)]) + Iterations(results, Tail(order))

(* lines 183-232; passed_tests and failed_tests are counted up in the same  *)
(* branches as the category's passed and failed                             *)
generate_summary(results) ==
    LET categories == [c \in SummaryCategories |-> CategorySummary(results[c])]
    IN  [total_tests |-> Iterations(results, CategoryOrder),
         passed_tests |-> SumOver(categories, "passed", CategoryOrder),
         failed_tests |-> SumOver(categories, "failed", CategoryOrder),
         categories |-> categories,
         performance_issues |->
            IF StartupIssue(categories["startup"]) THEN {"startup"} ELSE {}]

(* run_performance_tests, line 148 *)
GenerateSummary ==
    /\ pc = "generate_summary"
    /\ summary' = generate_summary(test_results)
    /\ pc' = "summarised"
    /\ UNCHANGED <<buildVars, bundleVars, test_results>>

InitSummary ==
    /\ pc = "generate_summary"
    /\ test_results \in [SummaryCategories -> SeqsUpTo(TestResults, MaxResults)]
    /\ summary = None
    /\ BundleIdle
    /\ args = ArgparseDefaults
    /\ host = UnknownHost
    /\ config = NoConfig
    /\ which = NoAnswers
    /\ fs = NoPaths
    /\ environ = NoEnv
    /\ search_path = <<"$PATH">>
    /\ git = UnknownGit
    /\ manifest = UnknownManifest
    /\ stages = [st \in Stages |-> "not_run"]
    /\ NothingDone

NextSummary == GenerateSummary

SpecSummary == InitSummary /\ [][NextSummary]_vars

(* C30: in the summary generate_summary returns, each category's total is   *)
(* its passed plus its failed and is the number of test results of the      *)
(* category, and total_tests is passed_tests plus failed_tests and is the   *)
(* sum of the categories' totals.                                           *)
SummaryCountsAgree ==
    (pc = "summarised") =>
        /\ \A c \in SummaryCategories :
              /\ summary.categories[c].total =
                    summary.categories[c].passed + summary.categories[c].failed
              /\ summary.categories[c].total = Len(test_results[c])
        /\ summary.total_tests = summary.passed_tests + summary.failed_tests
        /\ summary.total_tests = SumOver(summary.categories, "total", CategoryOrder)

=============================================================================
